---- MODULE Spec2Model ----
(***************************************************************************)
(* State-machine model of the subway-therapy note wall: the submission     *)
(* pipeline (POST /api/notes), the two rate-limit gates (cookie and        *)
(* hashed identifier), the classifier adapter, the note store (in-memory   *)
(* Map and Convex table), the flag handler, the admin moderation handler   *)
(* and the public note queries.                                            *)
(*                                                                         *)
(* Conventions.  Times are milliseconds (Date.now()).  Fractions are kept  *)
(* exact as integers: a classifier confidence c is the integer 100*c, an   *)
(* overlap fraction is the pair <<intersection area, note area>>.  An      *)
(* optional value (a missing cookie, an undefined field) is the empty set  *)
(* and a present one the singleton.  uuidv4() is a counter: ids are fresh; *)
(* the session id and the note id one request mints are both numbered by  *)
(* the counter's value (they live in different fields).                    *)
(***************************************************************************)
EXTENDS Integers, Sequences, FiniteSets, TLC

\* ------------------------------------------------------------------ bounds
MaxUuid == 2
MaxFlagCount == 4
MaxTicks == 3

\* ------------------------------------------------------- program constants
ONE_DAY_MS == 86400000
CONFIDENCE_THRESHOLD == 80
MAX_OVERLAP_PERCENTAGE == 25
noteWidth == 150
noteHeight == 150
padding == 200
FLAG_THRESHOLD == 3
MAX_IMAGE_BYTES == 500000

Procs == {"p1", "p2"}
Clients == {"c1", "c2"}
Workers == {"w1", "w2"}

NoteColors == {"yellow", "pink", "blue", "green", "orange", "purple", "white", "coral"}
ModerationStatuses == {"pending", "approved", "rejected", "flagged"}

\* ids: uuidv4() values and the ids of the sample notes
Uuid(k) == <<"uuid", k>>

SampleId(k) == <<"sample", k>>

NoId == <<"", 0>>

\* ---------------------------------------------------------------- helpers
Some(s) == CHOOSE x \in s : TRUE

Max2(a, b) == IF a >= b THEN a ELSE b

Min2(a, b) == IF a <= b THEN a ELSE b

SetMax(s) == CHOOSE x \in s : \A y \in s : y <= x

Range(f) == {f[i] : i \in DOMAIN f}

\* ------------------------------------------------------------ environment
\* process.env: NEXT_PUBLIC_CONVEX_URL set, BLOB_READ_WRITE_TOKEN set,
\* NODE_ENV === "production"
Environments ==
  {[convex |-> FALSE, blobToken |-> FALSE, production |-> FALSE],
   [convex |-> TRUE, blobToken |-> FALSE, production |-> FALSE],
   [convex |-> FALSE, blobToken |-> TRUE, production |-> TRUE],
   [convex |-> TRUE, blobToken |-> TRUE, production |-> TRUE]}

\* ------------------------------------------------------ geometry (types.ts)
calculateOverlapPercentage_bothAxes(newX, newY, existingX, existingY) ==
  LET left == Max2(newX, existingX)
      right == Min2(newX + noteWidth, existingX + noteWidth)
      top == Max2(newY, existingY)
      bottom == Min2(newY + noteHeight, existingY + noteHeight)
  IN IF left >= right /\ top >= bottom
       THEN <<0, noteWidth * noteHeight>>
       ELSE <<(right - left) * (bottom - top), noteWidth * noteHeight>>

\* intersection area of two noteWidth x noteHeight rectangles, over the note
\* area: the fraction is area[1] / area[2]
calculateOverlapPercentage(newX, newY, existingX, existingY) ==
  LET left == Max2(newX, existingX)
      right == Min2(newX + noteWidth, existingX + noteWidth)
      top == Max2(newY, existingY)
      bottom == Min2(newY + noteHeight, existingY + noteHeight)
  IN IF left >= right \/ top >= bottom
       THEN <<0, noteWidth * noteHeight>>
       ELSE <<(right - left) * (bottom - top), noteWidth * noteHeight>>

\* the largest intersection area with any existing note (all fractions share
\* the denominator noteWidth * noteHeight)
getMaxOverlapWithNotes(newX, newY, existingNotes) ==
  LET overlaps == {calculateOverlapPercentage(newX, newY, n.x, n.y)[1] : n \in existingNotes}
  IN <<SetMax(overlaps \cup {0}), noteWidth * noteHeight>>

isPlacementValid_strict(newX, newY, existingNotes) ==
  LET m == getMaxOverlapWithNotes(newX, newY, existingNotes)
  IN m[1] * 100 < MAX_OVERLAP_PERCENTAGE * m[2]

isPlacementValid(newX, newY, existingNotes) ==
  LET m == getMaxOverlapWithNotes(newX, newY, existingNotes)
  IN m[1] * 100 <= MAX_OVERLAP_PERCENTAGE * m[2]

\* ------------------------------------------- cookie rate-limit gate (session.ts)
CanPostYes == [canPost |-> TRUE, reason |-> "", timeUntilNextPost |-> {}]

CanPostNo(t) == [canPost |-> FALSE, reason |-> "Only one note per person per day!",
                 timeUntilNextPost |-> {t}]

canUserPostNote_shortWindow(lastNoteTime, t) ==
  IF lastNoteTime = {}
    THEN CanPostYes
    ELSE LET timeSinceLastNote == t - Some(lastNoteTime)
         IN IF timeSinceLastNote < ONE_DAY_MS - 1
              THEN CanPostNo(ONE_DAY_MS - timeSinceLastNote)
              ELSE CanPostYes

\* lastNoteTime: the value of the last-note cookie the request carries ({} if
\* none); t: new Date().getTime().  toISOString()/new Date(string) keep the
\* millisecond value.
canUserPostNote(lastNoteTime, t) ==
  IF lastNoteTime = {}
    THEN CanPostYes
    ELSE LET timeSinceLastNote == t - Some(lastNoteTime)
         IN IF timeSinceLastNote < ONE_DAY_MS
              THEN CanPostNo(ONE_DAY_MS - timeSinceLastNote)
              ELSE CanPostYes

\* a string is the list of its characters; String(n) of a natural number
DigitChar(d) == <<"0", "1", "2", "3", "4", "5", "6", "7", "8", "9">>[d + 1]

RECURSIVE Decimal(_)
Decimal(n) ==
  IF n < 10 THEN <<DigitChar(n)>> ELSE Decimal(n \div 10) \o <<DigitChar(n % 10)>>

formatTimeRemaining_alwaysHours(ms) ==
  Decimal(ms \div (60 * 60 * 1000)) \o <<"h", " ">>
    \o Decimal((ms % (60 * 60 * 1000)) \div (60 * 1000)) \o <<"m">>

formatTimeRemaining(ms) ==
  LET hours == ms \div (60 * 60 * 1000)
      minutes == (ms % (60 * 60 * 1000)) \div (60 * 1000)
  IN IF hours > 0
       THEN Decimal(hours) \o <<"h", " ">> \o Decimal(minutes) \o <<"m">>
       ELSE Decimal(minutes) \o <<"m">>

\* ------------------------------------ durable rate-limit store (rateLimits.ts)
canPost(records, identifier, t) ==
  LET oneDayAgo == t - ONE_DAY_MS
      recentRecords == {r \in records : r.identifier = identifier /\ r.createdAt >= oneDayAgo}
  IN IF recentRecords # {}
       THEN LET mostRecent == SetMax({r.createdAt : r \in recentRecords})
            IN CanPostNo(Max2(0, mostRecent + ONE_DAY_MS - t))
       ELSE CanPostYes

recordSubmission(records, identifier, noteId, t) ==
  records \cup {[identifier |-> identifier, createdAt |-> t, noteId |-> noteId]}

\* ------------------------------------------ client identity (rateLimit.ts)
\* the header values and addresses requests are given here
Texts ==
  {"", "203.0.113.7", "203.0.113.7, 198.51.100.2", "198.51.100.2", "198.51.100.2 , 203.0.113.7",
   "not-an-ip", "not-an-ip, 203.0.113.7", "1.2.3", "999.999.999.999", "2001:db8::1", "::1", "localhost"}

\* the characters of a text
Spell(text) ==
  CASE text = "" -> <<>>
    [] text = "203.0.113.7" -> <<"2", "0", "3", ".", "0", ".", "1", "1", "3", ".", "7">>
    [] text = "203.0.113.7, 198.51.100.2" -> <<"2", "0", "3", ".", "0", ".", "1", "1", "3", ".", "7", ",", " ", "1", "9", "8", ".", "5", "1", ".", "1", "0", "0", ".", "2">>
    [] text = "198.51.100.2" -> <<"1", "9", "8", ".", "5", "1", ".", "1", "0", "0", ".", "2">>
    [] text = "198.51.100.2 , 203.0.113.7" -> <<"1", "9", "8", ".", "5", "1", ".", "1", "0", "0", ".", "2", " ", ",", " ", "2", "0", "3", ".", "0", ".", "1", "1", "3", ".", "7">>
    [] text = "not-an-ip" -> <<"n", "o", "t", "-", "a", "n", "-", "i", "p">>
    [] text = "not-an-ip, 203.0.113.7" -> <<"n", "o", "t", "-", "a", "n", "-", "i", "p", ",", " ", "2", "0", "3", ".", "0", ".", "1", "1", "3", ".", "7">>
    [] text = "1.2.3" -> <<"1", ".", "2", ".", "3">>
    [] text = "999.999.999.999" -> <<"9", "9", "9", ".", "9", "9", "9", ".", "9", "9", "9", ".", "9", "9", "9">>
    [] text = "2001:db8::1" -> <<"2", "0", "0", "1", ":", "d", "b", "8", ":", ":", "1">>
    [] text = "::1" -> <<":", ":", "1">>
    [] text = "localhost" -> <<"l", "o", "c", "a", "l", "h", "o", "s", "t">>

\* the text with the given characters
Text(chars) == CHOOSE text \in Texts : Spell(text) = chars

\* the pieces of chars between the separators: String.prototype.split
RECURSIVE SplitBy(_, _)
SplitBy(chars, sep) ==
  IF \A i \in DOMAIN chars : chars[i] # sep
    THEN <<chars>>
    ELSE LET at == CHOOSE i \in DOMAIN chars :
                     chars[i] = sep /\ \A j \in 1..(i - 1) : chars[j] # sep
         IN <<SubSeq(chars, 1, at - 1)>> \o SplitBy(SubSeq(chars, at + 1, Len(chars)), sep)

\* String.prototype.trim
RECURSIVE Trim(_)
Trim(chars) ==
  IF chars # <<>> /\ chars[1] = " " THEN Trim(Tail(chars))
  ELSE IF chars # <<>> /\ chars[Len(chars)] = " " THEN Trim(SubSeq(chars, 1, Len(chars) - 1))
  ELSE chars

IsDigit(c) == c \in {"0", "1", "2", "3", "4", "5", "6", "7", "8", "9"}

IsHexDigit(c) ==
  IsDigit(c) \/ c \in {"a", "b", "c", "d", "e", "f", "A", "B", "C", "D", "E", "F"}

isValidIP_anyText(ip) == ip # ""

\* /^(\d{1,3}\.){3}\d{1,3}$/, /^([0-9a-fA-F]{0,4}:){2,7}[0-9a-fA-F]{0,4}$/,
\* "::1" and "localhost"
isValidIP(ip) ==
  LET ipv4 == SplitBy(Spell(ip), ".")
      ipv6 == SplitBy(Spell(ip), ":")
      ipv4Pattern == /\ Len(ipv4) = 4
                     /\ \A i \in DOMAIN ipv4 :
                          /\ Len(ipv4[i]) \in 1..3
                          /\ \A k \in DOMAIN ipv4[i] : IsDigit(ipv4[i][k])
      ipv6Pattern == /\ Len(ipv6) \in 3..8
                     /\ \A i \in DOMAIN ipv6 :
                          /\ Len(ipv6[i]) \in 0..4
                          /\ \A k \in DOMAIN ipv6[i] : IsHexDigit(ipv6[i][k])
  IN ipv4Pattern \/ ipv6Pattern \/ ip = "::1" \/ ip = "localhost"

\* the headers getClientIP reads, in its order of preference
ProxyHeaders ==
  <<"x-forwarded-for", "cf-connecting-ip", "x-real-ip", "x-client-ip", "true-client-ip">>

\* value.split(",")[0].trim()
FirstEntry(value) == Text(Trim(SplitBy(Spell(value), ",")[1]))

\* the loop of getClientIP from header number i on; request: header name to
\* {} (absent) or {value}
RECURSIVE getClientIPFrom(_, _)
getClientIPFrom(request, i) ==
  IF i > Len(ProxyHeaders)
    THEN "unknown-client"
    ELSE LET value == request[ProxyHeaders[i]]
         IN IF value # {} /\ Some(value) # ""
                /\ FirstEntry(Some(value)) # "" /\ isValidIP(FirstEntry(Some(value)))
              THEN FirstEntry(Some(value))
              ELSE getClientIPFrom(request, i + 1)

getClientIP(request) == getClientIPFrom(request, 1)

\* ------------------------------------- hashed-identity gate (rateLimit.ts)
\* SHA-256 of salt:ip, taken as collision-free
hashIdentifier(ip) == <<"sha256", "subway-therapy-rate-limit-salt-2024", ip>>

checkInMemoryRateLimit(limits, identifier, t) ==
  IF limits[identifier] = {}
    THEN CanPostYes
    ELSE LET timeSinceLastNote == t - Some(limits[identifier])
         IN IF timeSinceLastNote < ONE_DAY_MS
              THEN CanPostNo(ONE_DAY_MS - timeSinceLastNote)
              ELSE CanPostYes

\* -------------------------------------------- classifier adapter (moderation.ts)
\* What generateText does: it throws, or it returns a text.  Of the text only
\* what the adapter looks at is kept: json is the object JSON.parse gives for
\* the first-{ to last-} substring ({} when there is no such substring or it
\* does not parse), approvedWord is whether the upper-cased text contains
\* "APPROVED".  A parsed object's confidence may be missing ({}).
ClassifierOutputs ==
  {[throws |-> TRUE, json |-> {}, approvedWord |-> FALSE]} \cup
  [throws : {FALSE},
   json : {{}} \cup {{[decision |-> d, confidence |-> c]} :
                        d \in {"APPROVED", "REJECTED"}, c \in {{79}, {80}, {}}},
   approvedWord : BOOLEAN]

moderateImage_trustsKeyword(out) ==
  IF out.throws
    THEN [approved |-> FALSE,
          reason |-> "AI moderation unavailable - requires manual review",
          confidence |-> {0}]
    ELSE LET parsed == IF out.json # {}
                         THEN Some(out.json)
                         ELSE [decision |-> IF out.approvedWord THEN "APPROVED" ELSE "REJECTED",
                               confidence |-> {90}]
         IN [approved |-> parsed.decision = "APPROVED",
             reason |-> IF out.json # {} THEN "reason" ELSE "Could not parse structured response",
             confidence |-> parsed.confidence]

moderateImage(out) ==
  IF out.throws
    THEN [approved |-> FALSE,
          reason |-> "AI moderation unavailable - requires manual review",
          confidence |-> {0}]
    ELSE LET parsed == IF out.json # {}
                         THEN Some(out.json)
                         ELSE [decision |-> IF out.approvedWord THEN "APPROVED" ELSE "REJECTED",
                               confidence |-> {50}]
         IN [approved |-> parsed.decision = "APPROVED",
             reason |-> IF out.json # {} THEN "reason" ELSE "Could not parse structured response",
             confidence |-> parsed.confidence]

InitialStatus_strict(moderation) ==
  IF moderation.confidence # {} /\ Some(moderation.confidence) > CONFIDENCE_THRESHOLD
    THEN IF moderation.approved THEN "approved" ELSE "rejected"
    ELSE "pending"

\* the status POST derives from the adapter's result (undefined >= 0.8 is false)
InitialStatus(moderation) ==
  IF moderation.confidence # {} /\ Some(moderation.confidence) >= CONFIDENCE_THRESHOLD
    THEN IF moderation.approved THEN "approved" ELSE "rejected"
    ELSE "pending"


\* ------------------------------------------------------------------ state
VARIABLES
  now,                 \* Date.now() / new Date()
  env,                 \* process.env, fixed for a run
  nextUuid,            \* uuidv4(): the next fresh id
  notesStore,          \* storage.ts: the in-memory Map, in insertion order
  notes,               \* convex table "notes", in insertion order
  initialized,         \* route.ts: let initialized
  blobs,               \* blob storage: the image urls it holds
  cookies,             \* each client's cookie jar
  rateLimits,          \* convex table "rateLimits"
  inMemoryRateLimits,  \* rateLimit.ts: the in-process Map
  req,                 \* POST /api/notes requests in flight
  work,                \* flag and admin requests in flight
  gate,                \* callers of the hashed-identity gate
  convexErrored,       \* history: a call to the durable rate-limit store has failed
  accepted,            \* history: the submissions answered as accepted
  flagsDone,           \* history: flag operations completed per note id
  lastResponse         \* the response the last step sent, if it sent one

vars == <<now, env, nextUuid, notesStore, notes, initialized, blobs, cookies,
          rateLimits, inMemoryRateLimits, req, work, gate, convexErrored, accepted,
          flagsDone, lastResponse>>

storeVars == <<notesStore, notes, initialized, blobs, flagsDone>>

gateVars == <<rateLimits, inMemoryRateLimits, gate, convexErrored>>

NoResponse == [handler |-> "none"]

NoEffects == [uploaded |-> FALSE, classified |-> FALSE, stored |-> FALSE, recorded |-> FALSE]

EmptyImage == [scheme |-> "", id |-> NoId]

\* ------------------------------------------------------- request payloads
\* imageData: present (a non-empty string), dataImage (starts with
\* "data:image/"), base64 (matches /^data:([^;]+);base64,(.+)$/), length
ImagePayloads ==
  {[present |-> FALSE, dataImage |-> FALSE, base64 |-> FALSE, length |-> 0],
   [present |-> TRUE, dataImage |-> FALSE, base64 |-> FALSE, length |-> 20],
   [present |-> TRUE, dataImage |-> TRUE, base64 |-> TRUE, length |-> 666667],
   [present |-> TRUE, dataImage |-> TRUE, base64 |-> FALSE, length |-> 30],
   [present |-> TRUE, dataImage |-> TRUE, base64 |-> TRUE, length |-> 666666]}

\* color: "" is a missing color, "magenta" a color outside the palette
BodyColors == {"", "yellow", "magenta"}

\* x, y: {} when the body has none
ExplicitPositions == {{}, {<<100, 200>>}, {<<138, 200>>}}

\* findAvailablePosition(): 300000 +- 50000 by [0, wallHeight - noteHeight)
RandomPositions == {<<300000, 1000>>}

\* Math.random() * 6 - 3
Rotations == {2}

Bodies ==
  {[json |-> FALSE, imageData |-> Some({i \in ImagePayloads : ~i.present}), color |-> "", pos |-> {}]} \cup
  [json : {TRUE}, imageData : ImagePayloads, color : BodyColors, pos : ExplicitPositions]

\* const moderation, before moderateImage has returned
NoModeration == [approved |-> FALSE, reason |-> "", confidence |-> {}]

IdleReq ==
  [pc |-> "idle", client |-> "", body |-> Some({b \in Bodies : ~b.json}),
   sessionId |-> NoId, noteId |-> NoId, imageUrl |-> EmptyImage,
   moderationStatus |-> "pending", moderation |-> NoModeration, x |-> 0, y |-> 0, rotation |-> 0, createdAt |-> 0,
   fx |-> NoEffects]

IdleWork == [pc |-> "idle", noteId |-> NoId, action |-> "", noteIds |-> <<>>, pending |-> {}]

IdleGate == [pc |-> "idle", ip |-> "", noteId |-> NoId]

\* the addresses the hashed gate sees
IPs == {"203.0.113.7", "198.51.100.2"}

\* every value getClientIP returns for the requests given here
Identities == (Texts \ {""}) \cup {"unknown-client"}

Init ==
  /\ now = 0
  /\ env \in Environments
  /\ nextUuid = 1
  /\ notesStore = <<>>
  /\ notes = <<>>
  /\ initialized = FALSE
  /\ blobs = {}
  /\ cookies = [c \in Clients |-> [session |-> {}, lastNote |-> {}]]
  /\ rateLimits = {}
  /\ inMemoryRateLimits = [i \in {hashIdentifier(ip) : ip \in Identities} |-> {}]
  /\ req = [p \in Procs |-> IdleReq]
  /\ work = [w \in Workers \cup {"a1", "a2"} |-> IdleWork]
  /\ gate = [p \in Procs |-> IdleGate]
  /\ convexErrored = FALSE
  /\ accepted = {}
  /\ flagsDone = [i \in {} |-> 0]
  /\ lastResponse = NoResponse

\* ------------------------------------------------------ note store (storage.ts)
IndexOf(store, id) ==
  LET hits == {i \in DOMAIN store : store[i].id = id}
  IN IF hits = {} THEN 0 ELSE CHOOSE i \in hits : \A j \in hits : i <= j

\* getNote / the by_visibleId lookup: {} when absent, else the first match
getNote(store, id) ==
  IF IndexOf(store, id) = 0 THEN {} ELSE {store[IndexOf(store, id)]}

RemoveAt(store, i) ==
  [j \in 1..(Len(store) - 1) |-> IF j < i THEN store[j] ELSE store[j + 1]]

\* storage.ts createNote: Map.set replaces the value of an existing key in place
createNote(store, note) ==
  IF IndexOf(store, note.id) = 0
    THEN Append(store, note)
    ELSE [store EXCEPT ![IndexOf(store, note.id)] = note]

\* convex createNote: db.insert adds a document
insertNote(table, note) == Append(table, note)

setStatus_resetsFlags(store, id, status) ==
  IF IndexOf(store, id) = 0 THEN store
  ELSE [store EXCEPT ![IndexOf(store, id)].moderationStatus = status,
                     ![IndexOf(store, id)].flagCount = 0]

setStatus_keepsRejected(store, id, status) ==
  IF IndexOf(store, id) = 0 \/ store[IndexOf(store, id)].moderationStatus = "rejected"
    THEN store
    ELSE [store EXCEPT ![IndexOf(store, id)].moderationStatus = status]

\* storage.ts updateNote with updates = {moderationStatus}; convex db.patch
setStatus(store, id, status) ==
  IF IndexOf(store, id) = 0
    THEN store
    ELSE [store EXCEPT ![IndexOf(store, id)].moderationStatus = status]

flagNote_onlyAtThreshold(store, id) ==
  IF IndexOf(store, id) = 0 THEN store
  ELSE LET note == store[IndexOf(store, id)]
           newFlagCount == note.flagCount + 1
       IN [store EXCEPT ![IndexOf(store, id)] =
             IF newFlagCount = FLAG_THRESHOLD /\ note.moderationStatus = "approved"
               THEN [note EXCEPT !.flagCount = newFlagCount, !.moderationStatus = "flagged"]
               ELSE [note EXCEPT !.flagCount = newFlagCount]]

flagNote_early(store, id) ==
  IF IndexOf(store, id) = 0
    THEN store
    ELSE LET note == store[IndexOf(store, id)]
             newFlagCount == note.flagCount + 1
         IN [store EXCEPT ![IndexOf(store, id)] =
               IF newFlagCount >= FLAG_THRESHOLD - 1 /\ note.moderationStatus = "approved"
                 THEN [note EXCEPT !.flagCount = newFlagCount, !.moderationStatus = "flagged"]
                 ELSE [note EXCEPT !.flagCount = newFlagCount]]

\* flagNote (storage.ts and convex): one read-modify-write
flagNote(store, id) ==
  IF IndexOf(store, id) = 0
    THEN store
    ELSE LET note == store[IndexOf(store, id)]
             newFlagCount == note.flagCount + 1
         IN [store EXCEPT ![IndexOf(store, id)] =
               IF newFlagCount >= FLAG_THRESHOLD /\ note.moderationStatus = "approved"
                 THEN [note EXCEPT !.flagCount = newFlagCount, !.moderationStatus = "flagged"]
                 ELSE [note EXCEPT !.flagCount = newFlagCount]]

deleteNote_hides(store, id) ==
  IF IndexOf(store, id) = 0
    THEN store
    ELSE [store EXCEPT ![IndexOf(store, id)].moderationStatus = "rejected"]

deleteNote(store, id) ==
  IF IndexOf(store, id) = 0 THEN store ELSE RemoveAt(store, IndexOf(store, id))

IsPublic_withFlagged(note) == note.moderationStatus \in {"approved", "pending", "flagged"}

IsPublic(note) == note.moderationStatus = "approved" \/ note.moderationStatus = "pending"

\* convex getPublicNotes; GET's filter over getAllNotes()
getPublicNotes(store) == SelectSeq(store, IsPublic)

InBounds_exclusive(note, b) ==
  /\ note.x > b.minX - padding
  /\ note.x < b.maxX + padding
  /\ note.y > b.minY - padding
  /\ note.y < b.maxY + padding

InBounds(note, b) ==
  /\ note.x >= b.minX - padding
  /\ note.x <= b.maxX + padding
  /\ note.y >= b.minY - padding
  /\ note.y <= b.maxY + padding

getNotesInViewport(store, b) ==
  LET Keep(note) == IsPublic(note) /\ InBounds(note, b)
  IN SelectSeq(store, Keep)

\* ----------------------------------------------------- blob storage (blob.ts)
\* the url uploadNoteImage returns when it does not throw
\* Array.prototype.sort with the comparator on createdAt: stable, ascending,
\* or descending (newest first) for the review queues
RECURSIVE InsertSorted(_, _, _)
InsertSorted(sorted, note, newestFirst) ==
  IF sorted = <<>>
    THEN <<note>>
    ELSE LET last == sorted[Len(sorted)]
             before == IF newestFirst THEN last.createdAt >= note.createdAt
                                      ELSE last.createdAt <= note.createdAt
         IN IF before
              THEN Append(sorted, note)
              ELSE Append(InsertSorted(SubSeq(sorted, 1, Len(sorted) - 1), note, newestFirst), last)

RECURSIVE SortByCreatedAt(_, _)
SortByCreatedAt(list, newestFirst) ==
  IF list = <<>>
    THEN <<>>
    ELSE InsertSorted(SortByCreatedAt(SubSeq(list, 1, Len(list) - 1), newestFirst),
                      list[Len(list)], newestFirst)

\* status: {} for no filter
getNotesForModeration(store, status) ==
  SortByCreatedAt(SelectSeq(store, LAMBDA n : status = {} \/ n.moderationStatus = Some(status)),
                  status \in {{"pending"}, {"flagged"}})

CountStatus(store, status) == Len(SelectSeq(store, LAMBDA n : n.moderationStatus = status))

getStats(store) ==
  [total |-> Len(store), pending |-> CountStatus(store, "pending"),
   approved |-> CountStatus(store, "approved"), rejected |-> CountStatus(store, "rejected"),
   flagged |-> CountStatus(store, "flagged")]

UploadedUrl(imageData, noteId, token) ==
  IF token THEN [scheme |-> "https", id |-> noteId]
           ELSE [scheme |-> "data", id |-> <<"length", imageData.length>>]

\* ------------------------------------------------- POST /api/notes (route.ts)
PostResponse(c, status, error, wait, fx) ==
  [handler |-> "POST /api/notes", client |-> c, status |-> status,
   error |-> error, timeUntilNextPost |-> wait, noteId |-> NoId, moderationStatus |-> "",
   fx |-> fx]

POST_Begin_noSizeCheck(p, c, body) ==
  /\ req[p].pc = "idle"
  /\ LET postCheck == canUserPostNote(cookies[c].lastNote, now)
         sessionId == IF cookies[c].session = {} THEN Uuid(nextUuid) ELSE Some(cookies[c].session)
         Reject(status, error, wait) ==
           /\ lastResponse' = PostResponse(c, status, error, wait, NoEffects)
           /\ UNCHANGED <<req, nextUuid>>
     IN IF ~postCheck.canPost
          THEN Reject(429, postCheck.reason, postCheck.timeUntilNextPost)
        ELSE IF ~body.json
          THEN Reject(500, "Failed to create note", {})
        ELSE IF ~body.imageData.present \/ body.color = ""
          THEN Reject(400, "Missing required fields", {})
        ELSE IF ~body.imageData.dataImage
          THEN Reject(400, "Invalid image data", {})
        ELSE /\ nextUuid <= MaxUuid
             /\ req' = [req EXCEPT ![p] =
                  [IdleReq EXCEPT !.pc = "upload", !.client = c, !.body = body,
                                  !.sessionId = sessionId, !.noteId = Uuid(nextUuid)]]
             /\ nextUuid' = nextUuid + 1
             /\ lastResponse' = NoResponse
  /\ UNCHANGED <<now, env, storeVars, cookies, gateVars, work, accepted>>

\* the request arrives: rate-limit check, body validation, session and note id
POST_Begin(p, c, body) ==
  /\ req[p].pc = "idle"
  /\ LET postCheck == canUserPostNote(cookies[c].lastNote, now)
         sessionId == IF cookies[c].session = {} THEN Uuid(nextUuid) ELSE Some(cookies[c].session)
         Reject(status, error, wait) ==
           /\ lastResponse' = PostResponse(c, status, error, wait, NoEffects)
           /\ UNCHANGED <<req, nextUuid>>
     IN IF ~postCheck.canPost
          THEN Reject(429, postCheck.reason, postCheck.timeUntilNextPost)
        ELSE IF ~body.json
          THEN Reject(500, "Failed to create note", {})
        ELSE IF ~body.imageData.present \/ body.color = ""
          THEN Reject(400, "Missing required fields", {})
        ELSE IF ~body.imageData.dataImage
          THEN Reject(400, "Invalid image data", {})
        ELSE IF body.imageData.length * 3 > MAX_IMAGE_BYTES * 4
          THEN Reject(400, "Image too large. Please keep it under 500KB.", {})
        ELSE /\ nextUuid <= MaxUuid
             /\ req' = [req EXCEPT ![p] =
                  [IdleReq EXCEPT !.pc = "upload", !.client = c, !.body = body,
                                  !.sessionId = sessionId, !.noteId = Uuid(nextUuid)]]
             /\ nextUuid' = nextUuid + 1
             /\ lastResponse' = NoResponse
  /\ UNCHANGED <<now, env, storeVars, cookies, gateVars, work, accepted>>

POST_Upload_goesOn(p, putOk) ==
  /\ req[p].pc = "upload"
  /\ LET r == req[p]
         throws == env.blobToken /\ (~r.body.imageData.base64 \/ ~putOk)
     IN /\ lastResponse' = IF throws THEN PostResponse(r.client, 500, "Failed to upload image", {}, r.fx)
                                     ELSE NoResponse
        /\ req' = [req EXCEPT ![p].pc = "moderate", ![p].fx.uploaded = ~throws]
        /\ UNCHANGED blobs
  /\ UNCHANGED <<now, env, nextUuid, notesStore, notes, initialized, flagsDone, cookies,
                 gateVars, work, accepted>>

\* uploadNoteImage returns or throws
POST_Upload(p, putOk) ==
  /\ req[p].pc = "upload"
  /\ LET r == req[p]
         throws == env.blobToken /\ (~r.body.imageData.base64 \/ ~putOk)
         url == UploadedUrl(r.body.imageData, r.noteId, env.blobToken)
     IN IF throws
          THEN /\ lastResponse' = PostResponse(r.client, 500, "Failed to upload image", {}, r.fx)
               /\ req' = [req EXCEPT ![p] = IdleReq]
               /\ UNCHANGED blobs
          ELSE /\ req' = [req EXCEPT ![p].pc = "moderate", ![p].imageUrl = url,
                                     ![p].fx.uploaded = TRUE]
               /\ blobs' = IF env.blobToken THEN blobs \cup {url} ELSE blobs
               /\ lastResponse' = NoResponse
  /\ UNCHANGED <<now, env, nextUuid, notesStore, notes, initialized, flagsDone, cookies,
                 gateVars, work, accepted>>

NewNote(r) ==
  [id |-> r.noteId, imageUrl |-> r.imageUrl, color |-> r.body.color, x |-> r.x, y |-> r.y,
   rotation |-> r.rotation, createdAt |-> r.createdAt,
   moderationStatus |-> r.moderationStatus, flagCount |-> 0, sessionId |-> r.sessionId]

\* moderateImage returns; status, position, rotation and createdAt are set;
\* without Convex the note is written to the Map in the same turn
POST_Moderate(p, out, randomPos, rotation) ==
  /\ req[p].pc = "moderate"
  /\ LET r == req[p]
         moderation == moderateImage(out)
         position == IF r.body.pos # {} THEN Some(r.body.pos) ELSE randomPos
         r2 == [r EXCEPT !.moderationStatus = InitialStatus(moderation),
                         !.moderation = moderation,
                         !.x = position[1], !.y = position[2], !.rotation = rotation,
                         !.createdAt = now, !.fx.classified = TRUE]
     IN IF env.convex
          THEN /\ req' = [req EXCEPT ![p] = [r2 EXCEPT !.pc = "create"]]
               /\ UNCHANGED <<notesStore, flagsDone>>
          ELSE /\ req' = [req EXCEPT ![p] = [r2 EXCEPT !.pc = "record", !.fx.stored = TRUE]]
               /\ notesStore' = createNote(notesStore, NewNote(r2))
               /\ flagsDone' = (r.noteId :> 0) @@ flagsDone
  /\ lastResponse' = NoResponse
  /\ UNCHANGED <<now, env, nextUuid, notes, initialized, blobs, cookies, gateVars, work,
                 accepted>>

POST_Create_recordsAnyway(p, ok) ==
  /\ req[p].pc = "create"
  /\ LET r == req[p]
     IN /\ notes' = IF ok THEN insertNote(notes, NewNote(r)) ELSE notes
        /\ flagsDone' = IF ok THEN (r.noteId :> 0) @@ flagsDone ELSE flagsDone
        /\ req' = [req EXCEPT ![p].pc = "record", ![p].fx.stored = ok]
        /\ lastResponse' = NoResponse
  /\ UNCHANGED <<now, env, nextUuid, notesStore, initialized, blobs, cookies, gateVars, work,
                 accepted>>

\* convex.mutation(api.notes.createNote) returns or throws
POST_Create(p, ok) ==
  /\ req[p].pc = "create"
  /\ LET r == req[p]
     IN IF ok
          THEN /\ notes' = insertNote(notes, NewNote(r))
               /\ flagsDone' = (r.noteId :> 0) @@ flagsDone
               /\ req' = [req EXCEPT ![p].pc = "record", ![p].fx.stored = TRUE]
               /\ lastResponse' = NoResponse
          ELSE /\ lastResponse' = PostResponse(r.client, 500, "Failed to create note", {}, r.fx)
               /\ req' = [req EXCEPT ![p] = IdleReq]
               /\ UNCHANGED <<notes, flagsDone>>
  /\ UNCHANGED <<now, env, nextUuid, notesStore, initialized, blobs, cookies, gateVars, work,
                 accepted>>

POST_Record_rechecks(p) ==
  /\ req[p].pc = "record"
  /\ LET r == req[p]
         again == canUserPostNote(cookies[r.client].lastNote, now)
     IN IF again.canPost
          THEN /\ cookies' = [cookies EXCEPT ![r.client] = [session |-> {r.sessionId}, lastNote |-> {now}]]
               /\ accepted' = accepted \cup {[client |-> r.client, noteId |-> r.noteId, at |-> now]}
               /\ lastResponse' =
                    [PostResponse(r.client, 200, "", {}, [r.fx EXCEPT !.recorded = TRUE])
                       EXCEPT !.noteId = r.noteId, !.moderationStatus = r.moderationStatus]
          ELSE /\ lastResponse' = PostResponse(r.client, 429, again.reason, again.timeUntilNextPost, r.fx)
               /\ UNCHANGED <<cookies, accepted>>
  /\ req' = [req EXCEPT ![p] = IdleReq]
  /\ UNCHANGED <<now, env, nextUuid, storeVars, gateVars, work>>

POST_Record_skipsRejected(p) ==
  /\ req[p].pc = "record"
  /\ LET r == req[p]
     IN /\ IF r.moderationStatus = "rejected"
             THEN UNCHANGED <<cookies, accepted>>
             ELSE /\ cookies' = [cookies EXCEPT ![r.client] = [session |-> {r.sessionId}, lastNote |-> {now}]]
                  /\ accepted' = accepted \cup {[client |-> r.client, noteId |-> r.noteId, at |-> now]}
        /\ lastResponse' =
             [PostResponse(r.client, 200, "", {}, [r.fx EXCEPT !.recorded = (r.moderationStatus # "rejected")])
                EXCEPT !.noteId = r.noteId, !.moderationStatus = r.moderationStatus]
        /\ req' = [req EXCEPT ![p] = IdleReq]
  /\ UNCHANGED <<now, env, nextUuid, storeVars, gateVars, work>>

\* recordNoteSubmission, setSessionCookie and the success response
POST_Record(p) ==
  /\ req[p].pc = "record"
  /\ LET r == req[p]
     IN /\ cookies' = [cookies EXCEPT ![r.client] = [session |-> {r.sessionId}, lastNote |-> {now}]]
        /\ accepted' = accepted \cup {[client |-> r.client, noteId |-> r.noteId, at |-> now]}
        /\ lastResponse' =
             [PostResponse(r.client, 200, "", {}, [r.fx EXCEPT !.recorded = TRUE])
                EXCEPT !.noteId = r.noteId, !.moderationStatus = r.moderationStatus]
        /\ req' = [req EXCEPT ![p] = IdleReq]
  /\ UNCHANGED <<now, env, nextUuid, storeVars, gateVars, work>>

\* ----------------------------------------------------------------- clock
TickSteps == {1, ONE_DAY_MS - 1}

TicksTaken == (now \div (ONE_DAY_MS - 1)) + (now % (ONE_DAY_MS - 1))

Tick(d) ==
  /\ TicksTaken < MaxTicks
  /\ now' = now + d
  /\ lastResponse' = NoResponse
  /\ UNCHANGED <<env, nextUuid, storeVars, cookies, gateVars, req, work, accepted>>

\* --------------------------------- callers of the hashed gate (rateLimit.ts)
GateResponse(ip, result, fallback) ==
  [handler |-> "canClientPostNote", client |-> ip, canPost |-> result.canPost,
   timeUntilNextPost |-> result.timeUntilNextPost, fallback |-> fallback]

\* canClientPostNote: the durable store answers, or (not configured, or the
\* query throws) the in-process Map does.  A caller that may post goes on to
\* create its note and record the submission.
HashedCheck(g, ip, throws) ==
  /\ gate[g].pc = "idle"
  /\ LET hashedIdentifier == hashIdentifier(ip)
         durable == env.convex /\ ~throws
         result == IF durable
                     THEN canPost(rateLimits, hashedIdentifier, now)
                     ELSE checkInMemoryRateLimit(inMemoryRateLimits, hashedIdentifier, now)
     IN /\ lastResponse' = GateResponse(ip, result, ~durable)
        /\ convexErrored' = (convexErrored \/ (env.convex /\ throws))
        /\ IF result.canPost
             THEN /\ nextUuid <= MaxUuid
                  /\ gate' = [gate EXCEPT ![g] = [pc |-> "passed", ip |-> ip, noteId |-> Uuid(nextUuid)]]
                  /\ nextUuid' = nextUuid + 1
             ELSE UNCHANGED <<gate, nextUuid>>
  /\ UNCHANGED <<now, env, storeVars, cookies, rateLimits, inMemoryRateLimits, req, work,
                 accepted>>

\* recordClientSubmission: into the durable store, or (not configured, or the
\* mutation throws) into the in-process Map
HashedRecord(g, throws) ==
  /\ gate[g].pc = "passed"
  /\ LET hashedIdentifier == hashIdentifier(gate[g].ip)
         durable == env.convex /\ ~throws
     IN /\ IF durable
             THEN /\ rateLimits' = recordSubmission(rateLimits, hashedIdentifier, gate[g].noteId, now)
                  /\ UNCHANGED inMemoryRateLimits
             ELSE /\ inMemoryRateLimits' = [inMemoryRateLimits EXCEPT ![hashedIdentifier] = {now}]
                  /\ UNCHANGED rateLimits
        /\ convexErrored' = (convexErrored \/ (env.convex /\ throws))
        /\ accepted' = accepted \cup {[client |-> gate[g].ip, noteId |-> gate[g].noteId, at |-> now]}
  /\ gate' = [gate EXCEPT ![g] = IdleGate]
  /\ lastResponse' = NoResponse
  /\ UNCHANGED <<now, env, nextUuid, storeVars, cookies, req, work>>

\* rateLimits.ts cleanupOldRecords: the records the mutation keeps
cleanupOldRecords_halfWindow(records, t) ==
  {r \in records : ~(r.createdAt < t - ONE_DAY_MS \div 2)}

cleanupOldRecords(records, t) ==
  LET twoDaysAgo == t - 2 * ONE_DAY_MS
  IN {r \in records : ~(r.createdAt < twoDaysAgo)}

\* rateLimit.ts cleanupInMemoryRateLimits: the Map after the loop
cleanupInMemoryRateLimits(limits, t) ==
  [i \in DOMAIN limits |-> {ts \in limits[i] : ~(t - ts > ONE_DAY_MS * 2)}]

CleanupResponse(name, deleted) == [handler |-> name, deleted |-> deleted]

\* the cleanupOldRecords mutation is called
Cleanup_Durable ==
  /\ env.convex
  /\ rateLimits' = cleanupOldRecords(rateLimits, now)
  /\ lastResponse' = CleanupResponse("cleanupOldRecords",
                        Cardinality(rateLimits \ cleanupOldRecords(rateLimits, now)))
  /\ UNCHANGED <<now, env, nextUuid, storeVars, cookies, inMemoryRateLimits, gate,
                 convexErrored, req, work, accepted>>

\* cleanupInMemoryRateLimits() is called
Cleanup_InMemory ==
  /\ inMemoryRateLimits' = cleanupInMemoryRateLimits(inMemoryRateLimits, now)
  /\ lastResponse' = CleanupResponse("cleanupInMemoryRateLimits",
                        Cardinality({i \in DOMAIN inMemoryRateLimits :
                                       inMemoryRateLimits'[i] # inMemoryRateLimits[i]}))
  /\ UNCHANGED <<now, env, nextUuid, storeVars, cookies, rateLimits, gate,
                 convexErrored, req, work, accepted>>

\* ------------------------------------------- sample notes (storage.ts)
SamplePlaces ==
  <<[color |-> "yellow", x |-> 299600, y |-> 500], [color |-> "pink", x |-> 299800, y |-> 800],
    [color |-> "blue", x |-> 300000, y |-> 1200], [color |-> "green", x |-> 300200, y |-> 600],
    [color |-> "orange", x |-> 300400, y |-> 1000], [color |-> "purple", x |-> 299700, y |-> 1500],
    [color |-> "coral", x |-> 300100, y |-> 2000], [color |-> "white", x |-> 300300, y |-> 1800]>>

initializeSampleNotes(store, t, rotation) ==
  IF Len(store) > 0
    THEN store
    ELSE [k \in DOMAIN SamplePlaces |->
            [id |-> SampleId(k - 1), imageUrl |-> EmptyImage, color |-> SamplePlaces[k].color,
             x |-> SamplePlaces[k].x, y |-> SamplePlaces[k].y, rotation |-> rotation,
             createdAt |-> t, moderationStatus |-> "approved", flagCount |-> 0,
             sessionId |-> SampleId(0)]]

\* ------------------------------------------------- GET /api/notes (route.ts)
\* bounds: {} when a query parameter is missing
GetNotes(bounds, rotation) ==
  /\ IF env.convex
       THEN /\ lastResponse' =
                 [handler |-> "GET /api/notes", status |-> 200, bounds |-> bounds,
                  notes |-> IF bounds # {} THEN getNotesInViewport(notes, Some(bounds))
                                           ELSE getPublicNotes(notes)]
            /\ UNCHANGED <<notesStore, initialized, flagsDone>>
       ELSE LET seeded == IF initialized THEN notesStore
                                         ELSE initializeSampleNotes(notesStore, now, rotation)
            IN /\ notesStore' = seeded
               /\ initialized' = TRUE
               /\ flagsDone' = [i \in {n.id : n \in Range(seeded)} \ DOMAIN flagsDone |-> 0] @@ flagsDone
               /\ lastResponse' =
                    [handler |-> "GET /api/notes", status |-> 200, bounds |-> bounds,
                     notes |-> IF bounds # {} THEN getNotesInViewport(seeded, Some(bounds))
                                              ELSE getPublicNotes(seeded)]
  /\ UNCHANGED <<now, env, nextUuid, notes, blobs, cookies, gateVars, req, work, accepted>>

\* ------------------------------------------- POST /api/notes/flag (route.ts)
FlagResponse(id, status, error, flagCount) ==
  [handler |-> "POST /api/notes/flag", noteId |-> id, status |-> status, error |-> error,
   flagCount |-> flagCount]

FlagCountOf(store, id) == {n.flagCount : n \in getNote(store, id)}

BelowFlagBound(store, id) == \A n \in getNote(store, id) : n.flagCount < MaxFlagCount

\* with Convex the flagNote mutation is the whole request; without it the
\* handler looks the note up and, a turn later, flags it
Flag_Begin(w, id) ==
  /\ work[w].pc = "idle"
  /\ IF env.convex
       THEN /\ BelowFlagBound(notes, id)
            /\ IF getNote(notes, id) = {}
                 THEN /\ lastResponse' = FlagResponse(id, 404, "Note not found", {})
                      /\ UNCHANGED <<notes, flagsDone>>
                 ELSE /\ notes' = flagNote(notes, id)
                      /\ flagsDone' = [flagsDone EXCEPT ![id] = @ + 1]
                      /\ lastResponse' = FlagResponse(id, 200, "", FlagCountOf(notes', id))
            /\ UNCHANGED work
       ELSE /\ BelowFlagBound(notesStore, id)
            /\ IF getNote(notesStore, id) = {}
                 THEN /\ lastResponse' = FlagResponse(id, 404, "Note not found", {})
                      /\ UNCHANGED work
                 ELSE /\ work' = [work EXCEPT ![w] = [IdleWork EXCEPT !.pc = "flag", !.noteId = id]]
                      /\ lastResponse' = NoResponse
            /\ UNCHANGED <<notes, flagsDone>>
  /\ UNCHANGED <<now, env, nextUuid, notesStore, initialized, blobs, cookies, gateVars, req,
                 accepted>>

Flag_Apply_lostUpdate(w) ==
  /\ work[w].pc = "flag"
  /\ LET id == work[w].noteId
         racing == \E v \in DOMAIN work : v # w /\ work[v].pc = "flag" /\ work[v].noteId = id
     IN /\ notesStore' = IF racing THEN notesStore ELSE flagNote(notesStore, id)
        /\ flagsDone' = IF getNote(notesStore, id) = {} THEN flagsDone
                        ELSE [flagsDone EXCEPT ![id] = @ + 1]
        /\ lastResponse' = FlagResponse(id, 200, "", FlagCountOf(notesStore', id))
  /\ work' = [work EXCEPT ![w] = IdleWork]
  /\ UNCHANGED <<now, env, nextUuid, notes, initialized, blobs, cookies, gateVars, req,
                 accepted>>

\* flagNoteInMemory(noteId) and the response: updatedNote?.flagCount
Flag_Apply(w) ==
  /\ work[w].pc = "flag"
  /\ LET id == work[w].noteId
     IN /\ notesStore' = flagNote(notesStore, id)
        /\ flagsDone' = IF getNote(notesStore, id) = {} THEN flagsDone
                        ELSE [flagsDone EXCEPT ![id] = @ + 1]
        /\ lastResponse' = FlagResponse(id, 200, "", FlagCountOf(notesStore', id))
  /\ work' = [work EXCEPT ![w] = IdleWork]
  /\ UNCHANGED <<now, env, nextUuid, notes, initialized, blobs, cookies, gateVars, req,
                 accepted>>

\* --------------------------------------- POST /api/admin/moderate (route.ts)
AdminResponse(id, action, status, error) ==
  [handler |-> "POST /api/admin/moderate", noteId |-> id, action |-> action,
   status |-> status, error |-> error]

\* process.env.ADMIN_API_KEY ({} when unset)
ADMIN_API_KEY == {"test-admin-key"}

\* the authorization header of a request: {} when absent, else the one list
\* of the pieces between its single spaces (what split(" ") returns)
AuthHeaders ==
  {{}, {<<"Bearer", "test-admin-key">>}, {<<"Bearer", "dev-admin-key">>}, {<<"Bearer">>},
   {<<"Basic", "test-admin-key">>}, {<<"test-admin-key">>},
   {<<"Bearer", "test-admin-key", "x">>}}

\* no header, and the header "Bearer test-admin-key"
KeyOrNone == {{}, {<<"Bearer", "test-admin-key">>}}

checkAdminAuth_anyBearer(authHeader) ==
  authHeader # {} /\ Some(authHeader)[1] = "Bearer"

checkAdminAuth(authHeader) ==
  LET adminKey == IF ADMIN_API_KEY = {} THEN "dev-admin-key" ELSE Some(ADMIN_API_KEY)
  IN IF authHeader = {}
       THEN FALSE
       ELSE LET parts == Some(authHeader)
            IN /\ parts[1] = "Bearer"
               /\ Len(parts) >= 2 /\ parts[2] = adminKey

AdminListResponse(status, error, list, stats) ==
  [handler |-> "GET /api/admin/notes", status |-> status, error |-> error,
   notes |-> list, stats |-> stats]

\* the handler reads the in-memory Map, whatever the environment
Admin_Begin(w, authHeader, id, action) ==
  /\ work[w].pc = "idle"
  /\ IF env.production /\ ~checkAdminAuth(authHeader)
       THEN /\ lastResponse' = AdminResponse(id, action, 401, "Unauthorized")
            /\ UNCHANGED work
     ELSE IF id = NoId \/ action = ""
       THEN /\ lastResponse' = AdminResponse(id, action, 400, "Missing noteId or action")
            /\ UNCHANGED work
     ELSE IF getNote(notesStore, id) = {}
       THEN /\ lastResponse' = AdminResponse(id, action, 404, "Note not found")
            /\ UNCHANGED work
     ELSE /\ work' = [work EXCEPT ![w] = [IdleWork EXCEPT !.pc = "moderate", !.noteId = id, !.action = action]]
          /\ lastResponse' = NoResponse
  /\ UNCHANGED <<now, env, nextUuid, storeVars, cookies, gateVars, req, accepted>>

\* the switch on action: moderateNote, or deleteNote up to its await of
\* deleteNoteImage (no await when the note is gone or has no image url)
Admin_Apply(w) ==
  /\ work[w].pc = "moderate"
  /\ LET id == work[w].noteId
         action == work[w].action
         found == getNote(notesStore, id)
     IN IF action \in {"approve", "reject"}
          THEN /\ notesStore' = setStatus(notesStore, id, IF action = "approve" THEN "approved" ELSE "rejected")
               /\ lastResponse' = AdminResponse(id, action, 200, "")
               /\ work' = [work EXCEPT ![w] = IdleWork]
        ELSE IF action = "delete"
          THEN IF found # {} /\ Some(found).imageUrl.scheme # ""
                 THEN /\ work' = [work EXCEPT ![w].pc = "deleting"]
                      /\ lastResponse' = NoResponse
                      /\ UNCHANGED notesStore
                 ELSE /\ notesStore' = deleteNote(notesStore, id)
                      /\ lastResponse' = AdminResponse(id, action, 200, "")
                      /\ work' = [work EXCEPT ![w] = IdleWork]
        ELSE /\ lastResponse' = AdminResponse(id, action, 400, "Invalid action")
             /\ work' = [work EXCEPT ![w] = IdleWork]
             /\ UNCHANGED notesStore
  /\ UNCHANGED <<now, env, nextUuid, notes, initialized, blobs, flagsDone, cookies, gateVars,
                 req, accepted>>

Admin_Delete_imageErrorBlocks(w, delOk) ==
  /\ work[w].pc = "deleting"
  /\ IF env.blobToken /\ ~delOk
       THEN /\ lastResponse' = AdminResponse(work[w].noteId, "delete", 500, "Failed to moderate note")
            /\ UNCHANGED <<blobs, notesStore>>
       ELSE /\ blobs' = blobs \ {[scheme |-> "https", id |-> work[w].noteId]}
            /\ notesStore' = deleteNote(notesStore, work[w].noteId)
            /\ lastResponse' = AdminResponse(work[w].noteId, "delete", 200, "")
  /\ work' = [work EXCEPT ![w] = IdleWork]
  /\ UNCHANGED <<now, env, nextUuid, notes, initialized, flagsDone, cookies, gateVars, req,
                 accepted>>

\* deleteNoteImage(url) has returned (del(url) removed the blob, or threw and
\* was caught); notesStore.delete(id)
Admin_Delete(w, delOk) ==
  /\ work[w].pc = "deleting"
  /\ LET id == work[w].noteId
         url == [scheme |-> "https", id |-> id]
     IN /\ blobs' = IF env.blobToken /\ delOk THEN blobs \ {url} ELSE blobs
        /\ notesStore' = deleteNote(notesStore, id)
        /\ lastResponse' = AdminResponse(id, "delete", 200, "")
  /\ work' = [work EXCEPT ![w] = IdleWork]
  /\ UNCHANGED <<now, env, nextUuid, notes, initialized, flagsDone, cookies, gateVars, req,
                 accepted>>

\* ---------------------------------------- PUT /api/admin/moderate (route.ts)
BatchResponse(action, status, error, results) ==
  [handler |-> "PUT /api/admin/moderate", action |-> action, status |-> status,
   error |-> error, results |-> results]

RECURSIVE moderateAll(_, _, _)
moderateAll(store, ids, status) ==
  IF ids = <<>> THEN store
  ELSE moderateAll(setStatus(store, Head(ids), status), Tail(ids), status)

RECURSIVE deleteAll(_, _)
deleteAll(store, ids) ==
  IF ids = <<>> THEN store ELSE deleteAll(deleteNote(store, Head(ids)), Tail(ids))

\* noteIds.map(async ...): each callback runs up to its first await in the
\* handler's turn, so moderateNote, and deleteNote of a note that is missing
\* or has no image url, take effect at once; deleteNote of a note with an
\* image url awaits deleteNoteImage first.  Every result is success: true
\* unless the action is not one of the three.
Batch_Begin(w, authHeader, noteIds, action) ==
  /\ work[w].pc = "idle"
  /\ LET results(ok) == [i \in DOMAIN noteIds |-> [noteId |-> noteIds[i], success |-> ok]]
         awaiting == {id \in Range(noteIds) :
                        \E n \in getNote(notesStore, id) : n.imageUrl.scheme # ""}
         atOnce == SelectSeq(noteIds, LAMBDA id : id \notin awaiting)
     IN IF env.production /\ ~checkAdminAuth(authHeader)
          THEN /\ lastResponse' = BatchResponse(action, 401, "Unauthorized", <<>>)
               /\ UNCHANGED <<work, notesStore>>
        ELSE IF action = ""
          THEN /\ lastResponse' = BatchResponse(action, 400, "Missing noteIds array or action", <<>>)
               /\ UNCHANGED <<work, notesStore>>
        ELSE IF action \in {"approve", "reject"}
          THEN /\ notesStore' = moderateAll(notesStore, noteIds,
                                            IF action = "approve" THEN "approved" ELSE "rejected")
               /\ lastResponse' = BatchResponse(action, 200, "", results(TRUE))
               /\ UNCHANGED work
        ELSE IF action = "delete"
          THEN /\ notesStore' = deleteAll(notesStore, atOnce)
               /\ IF awaiting = {}
                    THEN /\ lastResponse' = BatchResponse(action, 200, "", results(TRUE))
                         /\ UNCHANGED work
                    ELSE /\ lastResponse' = NoResponse
                         /\ work' = [work EXCEPT ![w] =
                              [IdleWork EXCEPT !.pc = "batchDeleting", !.action = action,
                                               !.noteIds = noteIds, !.pending = awaiting]]
        ELSE /\ lastResponse' = BatchResponse(action, 200, "", results(FALSE))
             /\ UNCHANGED <<work, notesStore>>
  /\ UNCHANGED <<now, env, nextUuid, notes, initialized, blobs, flagsDone, cookies, gateVars,
                 req, accepted>>

\* one deleteNoteImage has returned: notesStore.delete(id); the response is
\* sent when the last one has
Batch_Delete(w, id, delOk) ==
  /\ work[w].pc = "batchDeleting"
  /\ id \in work[w].pending
  /\ LET url == [scheme |-> "https", id |-> id]
         noteIds == work[w].noteIds
     IN /\ blobs' = IF env.blobToken /\ delOk THEN blobs \ {url} ELSE blobs
        /\ notesStore' = deleteNote(notesStore, id)
        /\ IF work[w].pending = {id}
             THEN /\ work' = [work EXCEPT ![w] = IdleWork]
                  /\ lastResponse' = BatchResponse("delete", 200, "",
                       [i \in DOMAIN noteIds |-> [noteId |-> noteIds[i], success |-> TRUE]])
             ELSE /\ work' = [work EXCEPT ![w].pending = @ \ {id}]
                  /\ lastResponse' = NoResponse
  /\ UNCHANGED <<now, env, nextUuid, notes, initialized, flagsDone, cookies, gateVars, req,
                 accepted>>

\* GET /api/admin/notes: the moderation list (filter: {} or one status) and
\* the stats, from the store in use
Admin_List(authHeader, filter) ==
  /\ IF env.production /\ ~checkAdminAuth(authHeader)
       THEN lastResponse' = AdminListResponse(401, "Unauthorized", <<>>, {})
       ELSE LET store == IF env.convex THEN notes ELSE notesStore
            IN lastResponse' = AdminListResponse(200, "",
                 [i \in DOMAIN getNotesForModeration(store, filter) |->
                    getNotesForModeration(store, filter)[i].id],
                 {getStats(store)})
  /\ UNCHANGED <<now, env, nextUuid, storeVars, cookies, gateVars, req, work, accepted>>

\* ------------------------------------------ formatTimeRemaining (session.ts)
FormatResponse(ms) ==
  [handler |-> "formatTimeRemaining", ms |-> ms, text |-> formatTimeRemaining(ms)]

\* formatTimeRemaining(ms) is called
Format_Input(ms) ==
  /\ lastResponse' = FormatResponse(ms)
  /\ UNCHANGED <<now, env, nextUuid, storeVars, cookies, gateVars, req, work, accepted>>

\* a client formats the timeUntilNextPost of the 429 it was sent
Format_Wait ==
  /\ lastResponse.handler = "POST /api/notes" /\ lastResponse.status = 429
  /\ lastResponse.timeUntilNextPost # {}
  /\ Format_Input(Some(lastResponse.timeUntilNextPost))

\* ------------------------------------------------ placement ghost (Wall.tsx)
\* the wall moves the placement ghost to (x, y) and measures it against the
\* notes it shows
Wall_MoveGhost(x, y) ==
  /\ LET shown == {[x |-> n.x, y |-> n.y] :
                     n \in Range(getPublicNotes(IF env.convex THEN notes ELSE notesStore))}
     IN lastResponse' = [handler |-> "Wall ghost", x |-> x, y |-> y, notes |-> shown,
                         currentOverlap |-> getMaxOverlapWithNotes(x, y, shown),
                         isPlacementValid |-> isPlacementValid(x, y, shown)]
  /\ UNCHANGED <<now, env, nextUuid, storeVars, cookies, gateVars, req, work, accepted>>

\* ------------------------------------- convex mutations called directly (notes.ts)
ConvexResponse(name, id, found) ==
  [handler |-> name, noteId |-> id, found |-> found]

\* notes:createNote called with the arguments of the caller's choice
Convex_createNote(args) ==
  /\ env.convex
  /\ Len(notes) <= MaxUuid
  /\ notes' = insertNote(notes, args)
  /\ flagsDone' = IF args.id \in DOMAIN flagsDone THEN flagsDone ELSE (args.id :> 0) @@ flagsDone
  /\ lastResponse' = ConvexResponse("convex createNote", args.id, TRUE)
  /\ UNCHANGED <<now, env, nextUuid, notesStore, initialized, blobs, cookies, gateVars, req,
                 work, accepted>>

Convex_moderateNote(id, status) ==
  /\ env.convex
  /\ notes' = setStatus(notes, id, status)
  /\ lastResponse' = ConvexResponse("convex moderateNote", id, getNote(notes, id) # {})
  /\ UNCHANGED <<now, env, nextUuid, notesStore, initialized, blobs, flagsDone, cookies,
                 gateVars, req, work, accepted>>

Convex_deleteNote(id) ==
  /\ env.convex
  /\ notes' = deleteNote(notes, id)
  /\ lastResponse' = ConvexResponse("convex deleteNote", id, getNote(notes, id) # {})
  /\ UNCHANGED <<now, env, nextUuid, notesStore, initialized, blobs, flagsDone, cookies,
                 gateVars, req, work, accepted>>

\* ---------------------------------------------------------- specifications
MalformedBody == Some({b \in Bodies : ~b.json})

ValidImage == Some({i \in ImagePayloads : i.base64 /\ i.length * 3 <= MAX_IMAGE_BYTES * 4})

\* one body per outcome of the validation, without coordinates
PostBodies ==
  {MalformedBody} \cup
  {b \in Bodies : b.json /\ b.color = "yellow" /\ b.pos = {} /\ (b.imageData.dataImage => b.imageData.base64)}

\* the classifier is unavailable, or approves with confidence 0.8
GateClassifierOutputs ==
  {out \in ClassifierOutputs :
     out.throws \/ (out.json = {[decision |-> "APPROVED", confidence |-> {80}]} /\ ~out.approvedWord)}

\* SpecPost: concurrent submissions (two requests in flight, two clients)
NextPost ==
  \/ \E p \in Procs, c \in Clients, body \in PostBodies : POST_Begin(p, c, body)
  \/ \E p \in Procs, putOk \in BOOLEAN : POST_Upload(p, putOk)
  \/ \E p \in Procs, out \in GateClassifierOutputs, pos \in RandomPositions, rot \in Rotations :
       POST_Moderate(p, out, pos, rot)
  \/ \E p \in Procs, ok \in BOOLEAN : POST_Create(p, ok)
  \/ \E p \in Procs : POST_Record(p)

SpecPost == Init /\ [][NextPost]_vars

\* SpecSubmit: one submission at a time, every payload, classifier output and
\* explicit position
SubmitProc == "p1"

\* every image payload, and with the valid image every color and position
SubmitBodies ==
  {b \in Bodies : ~b.json \/ b.imageData = ValidImage \/ (b.color = "yellow" /\ b.pos = {})}

NextSubmit ==
  \/ \E c \in Clients, body \in SubmitBodies : POST_Begin(SubmitProc, c, body)
  \/ \E putOk \in BOOLEAN : POST_Upload(SubmitProc, putOk)
  \/ \E out \in ClassifierOutputs, pos \in RandomPositions, rot \in Rotations :
       POST_Moderate(SubmitProc, out, pos, rot)
  \/ \E ok \in BOOLEAN : POST_Create(SubmitProc, ok)
  \/ POST_Record(SubmitProc)

SpecSubmit == Init /\ [][NextSubmit]_vars

\* SpecGate: the submissions of one identity, one after the other, as the
\* clock advances, under the cookie gate or under the hashed gate
ValidBody == Some({b \in PostBodies : b.json /\ b.imageData = ValidImage})

GateClient == "c1"

GateIP == "203.0.113.7"

\* no request is in flight: the clock advances between requests (a request
\* is served within its millisecond)
Quiet == req[SubmitProc].pc = "idle" /\ gate[SubmitProc].pc = "idle"

NextGate ==
  \/ POST_Begin(SubmitProc, GateClient, ValidBody)
  \/ POST_Upload(SubmitProc, TRUE)
  \/ \E out \in GateClassifierOutputs, pos \in RandomPositions, rot \in Rotations :
       POST_Moderate(SubmitProc, out, pos, rot)
  \/ \E ok \in BOOLEAN : POST_Create(SubmitProc, ok)
  \/ POST_Record(SubmitProc)
  \/ \E throws \in BOOLEAN : HashedCheck(SubmitProc, GateIP, throws)
  \/ \E throws \in BOOLEAN : HashedRecord(SubmitProc, throws)
  \/ \E d \in TickSteps : Quiet /\ Tick(d)

SpecGate == Init /\ [][NextGate]_vars

\* SpecWall: one submitted note and the sample notes, read, flagged (two
\* requests at a time), moderated and deleted
WallClassifierOutputs ==
  {out \in ClassifierOutputs :
     out.throws \/ (out.json # {} /\ ~out.approvedWord /\ Some(out.json).confidence = {80})}

FlagNoteIds == {Uuid(1)}

AdminNoteIds == {Uuid(1), SampleId(0)}

WallBody == [ValidBody EXCEPT !.pos = {<<100, 200>>}]

AdminActions == {"approve", "reject", "delete", "archive"}

AdminWorker == "a1"

Viewports == {{}, {[minX |-> 0, maxX |-> 1000, minY |-> 0, maxY |-> 1000]}}

NextWall ==
  \/ POST_Begin(SubmitProc, GateClient, WallBody)
  \/ POST_Upload(SubmitProc, TRUE)
  \/ \E out \in WallClassifierOutputs, pos \in RandomPositions, rot \in Rotations :
       POST_Moderate(SubmitProc, out, pos, rot)
  \/ POST_Create(SubmitProc, TRUE)
  \/ POST_Record(SubmitProc)
  \/ \E bounds \in Viewports, rot \in Rotations : GetNotes(bounds, rot)
  \/ \E w \in Workers, id \in FlagNoteIds : Flag_Begin(w, id)
  \/ \E w \in Workers : Flag_Apply(w)
  \/ \E authHeader \in KeyOrNone, id \in AdminNoteIds, action \in AdminActions :
       Admin_Begin(AdminWorker, authHeader, id, action)
  \/ Admin_Apply(AdminWorker)
  \/ \E delOk \in BOOLEAN : Admin_Delete(AdminWorker, delOk)
  \/ \E id \in FlagNoteIds, status \in ModerationStatuses : Convex_moderateNote(id, status)
  \/ \E id \in FlagNoteIds : Convex_deleteNote(id)

SpecWall == Init /\ [][NextWall]_vars

\* SpecModerate: one submitted note; a flag request, a single moderation
\* request and a batch moderation request at a time
FlagWorker == "w1"

BatchWorker == "a2"

BatchNoteIds == {<<Uuid(1)>>, <<Uuid(2), Uuid(1)>>}

ModerateClassifierOutputs ==
  {out \in WallClassifierOutputs : ~out.throws /\ Some(out.json).decision = "APPROVED"}

NextModerate ==
  \/ POST_Begin(SubmitProc, GateClient, WallBody)
  \/ POST_Upload(SubmitProc, TRUE)
  \/ \E out \in ModerateClassifierOutputs, pos \in RandomPositions, rot \in Rotations :
       POST_Moderate(SubmitProc, out, pos, rot)
  \/ POST_Create(SubmitProc, TRUE)
  \/ POST_Record(SubmitProc)
  \/ \E id \in FlagNoteIds : Flag_Begin(FlagWorker, id)
  \/ Flag_Apply(FlagWorker)
  \/ \E authHeader \in KeyOrNone, id \in FlagNoteIds, action \in AdminActions :
       Admin_Begin(AdminWorker, authHeader, id, action)
  \/ Admin_Apply(AdminWorker)
  \/ \E delOk \in BOOLEAN : Admin_Delete(AdminWorker, delOk)
  \/ \E authHeader \in KeyOrNone, noteIds \in BatchNoteIds, action \in AdminActions \cup {""} :
       Batch_Begin(BatchWorker, authHeader, noteIds, action)
  \/ \E id \in FlagNoteIds, delOk \in BOOLEAN : Batch_Delete(BatchWorker, id, delOk)

SpecModerate == Init /\ [][NextModerate]_vars

\* SpecCreate: submissions of two clients, and the createNote mutation called
\* with a visibleId of the caller's choice
DirectNotes ==
  {[id |-> Uuid(1), imageUrl |-> [scheme |-> "https", id |-> Uuid(1)], color |-> "pink",
    x |-> 0, y |-> 0, rotation |-> 0, createdAt |-> 0, moderationStatus |-> "approved",
    flagCount |-> 0, sessionId |-> NoId]}

NextCreate ==
  \/ \E c \in Clients : POST_Begin(SubmitProc, c, WallBody)
  \/ \E putOk \in BOOLEAN : POST_Upload(SubmitProc, putOk)
  \/ \E out \in GateClassifierOutputs, pos \in RandomPositions, rot \in Rotations :
       POST_Moderate(SubmitProc, out, pos, rot)
  \/ \E ok \in BOOLEAN : POST_Create(SubmitProc, ok)
  \/ POST_Record(SubmitProc)
  \/ \E args \in DirectNotes : Convex_createNote(args)
  \/ \E id \in FlagNoteIds : Convex_deleteNote(id)

SpecCreate == Init /\ [][NextCreate]_vars

\* SpecCleanup: the hashed gate of two identities, the clock, and the two
\* cleanups of rate-limit records
NextCleanup ==
  \/ \E ip \in IPs, throws \in BOOLEAN : HashedCheck(SubmitProc, ip, throws)
  \/ \E throws \in BOOLEAN : HashedRecord(SubmitProc, throws)
  \/ \E d \in TickSteps : Quiet /\ Tick(d)
  \/ Cleanup_Durable
  \/ Cleanup_InMemory

SpecCleanup == Init /\ [][NextCleanup]_vars

\* SpecAdmin: one submitted note and the three admin handlers, called with
\* every authorization header
ModerationActions == {"approve", "reject", "delete"}

ListFilters == {{}, {"approved"}}

NextAdmin ==
  \/ POST_Begin(SubmitProc, GateClient, WallBody)
  \/ POST_Upload(SubmitProc, TRUE)
  \/ \E out \in ModerateClassifierOutputs, pos \in RandomPositions, rot \in Rotations :
       POST_Moderate(SubmitProc, out, pos, rot)
  \/ POST_Create(SubmitProc, TRUE)
  \/ POST_Record(SubmitProc)
  \/ \E authHeader \in AuthHeaders, filter \in ListFilters : Admin_List(authHeader, filter)
  \/ \E authHeader \in AuthHeaders, id \in FlagNoteIds, action \in ModerationActions :
       Admin_Begin(AdminWorker, authHeader, id, action)
  \/ Admin_Apply(AdminWorker)
  \/ \E delOk \in BOOLEAN : Admin_Delete(AdminWorker, delOk)
  \/ \E authHeader \in AuthHeaders, noteIds \in BatchNoteIds, action \in ModerationActions :
       Batch_Begin(BatchWorker, authHeader, noteIds, action)
  \/ \E id \in FlagNoteIds, delOk \in BOOLEAN : Batch_Delete(BatchWorker, id, delOk)

SpecAdmin == Init /\ [][NextAdmin]_vars

\* SpecRegion: one note submitted at a position on, inside or beyond the
\* padded edge of the requested region, and GET /api/notes
RegionViewport == [minX |-> 1000, maxX |-> 2000, minY |-> 1000, maxY |-> 2000]

RegionPositions ==
  {<<1500, 1500>>, <<900, 1500>>, <<800, 1500>>, <<799, 1500>>, <<2200, 1500>>, <<2201, 1500>>,
   <<1500, 800>>, <<1500, 799>>, <<1500, 2200>>, <<1500, 2201>>, <<800, 2200>>}

RegionBodies == {[ValidBody EXCEPT !.pos = {position}] : position \in RegionPositions}

NextRegion ==
  \/ \E body \in RegionBodies : POST_Begin(SubmitProc, GateClient, body)
  \/ POST_Upload(SubmitProc, TRUE)
  \/ \E out \in WallClassifierOutputs, pos \in RandomPositions, rot \in Rotations :
       POST_Moderate(SubmitProc, out, pos, rot)
  \/ POST_Create(SubmitProc, TRUE)
  \/ POST_Record(SubmitProc)
  \/ \E bounds \in {{}, {RegionViewport}}, rot \in Rotations : GetNotes(bounds, rot)

SpecRegion == Init /\ [][NextRegion]_vars

\* SpecPlace: two clients submit a note each, and the wall measures ghost
\* positions against the notes stored
PlaceNotePositions == {<<0, 0>>, <<226, 0>>}

PlaceBodies == {[ValidBody EXCEPT !.pos = {position}] : position \in PlaceNotePositions}

\* same place, 37 wide strips of two neighbours, a quarter exactly, just over a
\* quarter, touching edges, apart in one axis, apart in both
GhostPositions ==
  {<<0, 0>>, <<113, 0>>, <<75, 75>>, <<74, 75>>, <<150, 0>>, <<0, 150>>, <<149, 149>>,
   <<376, 0>>, <<100, 150>>, <<1000, 1000>>}

NextPlace ==
  \/ \E c \in Clients, body \in PlaceBodies : POST_Begin(SubmitProc, c, body)
  \/ POST_Upload(SubmitProc, TRUE)
  \/ \E out \in GateClassifierOutputs, pos \in RandomPositions, rot \in Rotations :
       POST_Moderate(SubmitProc, out, pos, rot)
  \/ POST_Create(SubmitProc, TRUE)
  \/ POST_Record(SubmitProc)
  \/ \E position \in GhostPositions : Wall_MoveGhost(position[1], position[2])

SpecPlace == Init /\ [][NextPlace]_vars

\* SpecFormat: the submissions of one client as the clock advances, and
\* formatTimeRemaining applied to the waits it is told and to chosen values
FormatInputs ==
  {0, 30000, 59999, 60000, 2700000, 3599999, 3600000, 9000000, 10800000, 36000000,
   86340000, 86400000, 360000000}

NextFormat ==
  \/ POST_Begin(SubmitProc, GateClient, ValidBody)
  \/ POST_Upload(SubmitProc, TRUE)
  \/ \E out \in GateClassifierOutputs, pos \in RandomPositions, rot \in Rotations :
       POST_Moderate(SubmitProc, out, pos, rot)
  \/ POST_Create(SubmitProc, TRUE)
  \/ POST_Record(SubmitProc)
  \/ \E d \in TickSteps : Quiet /\ Tick(d)
  \/ \E ms \in FormatInputs : Format_Input(ms)
  \/ Format_Wait

SpecFormat == Init /\ [][NextFormat]_vars

\* SpecReflag: one submitted note, approved or left pending, flagged again
\* and again and approved by hand in between
NextReflag ==
  \/ POST_Begin(SubmitProc, GateClient, WallBody)
  \/ POST_Upload(SubmitProc, TRUE)
  \/ \E out \in GateClassifierOutputs, pos \in RandomPositions, rot \in Rotations :
       POST_Moderate(SubmitProc, out, pos, rot)
  \/ POST_Create(SubmitProc, TRUE)
  \/ POST_Record(SubmitProc)
  \/ \E id \in FlagNoteIds : Flag_Begin(FlagWorker, id)
  \/ Flag_Apply(FlagWorker)
  \/ \E authHeader \in KeyOrNone, id \in FlagNoteIds :
       Admin_Begin(AdminWorker, authHeader, id, "approve")
  \/ Admin_Apply(AdminWorker)
  \/ \E id \in FlagNoteIds : Convex_moderateNote(id, "approved")

SpecReflag == Init /\ [][NextReflag]_vars

\* SpecRejected: the submissions of one client, approved, rejected or left
\* pending by the classifier, as the clock advances, and GET /api/notes
NextRejected ==
  \/ POST_Begin(SubmitProc, GateClient, ValidBody)
  \/ POST_Upload(SubmitProc, TRUE)
  \/ \E out \in WallClassifierOutputs, pos \in RandomPositions, rot \in Rotations :
       POST_Moderate(SubmitProc, out, pos, rot)
  \/ POST_Create(SubmitProc, TRUE)
  \/ POST_Record(SubmitProc)
  \/ \E d \in TickSteps : Quiet /\ Tick(d)
  \/ \E rot \in Rotations : GetNotes({}, rot)

SpecRejected == Init /\ [][NextRejected]_vars

\* SpecIdentity: the hashed gate asked by requests with different proxy
\* headers; those that resolve to an address ask before the clock starts,
\* those that resolve to "unknown-client" at any time
NoHeaders == [h \in Range(ProxyHeaders) |-> {}]

GateRequests ==
  {NoHeaders,
   [NoHeaders EXCEPT !["x-forwarded-for"] = {"203.0.113.7"}],
   [NoHeaders EXCEPT !["x-forwarded-for"] = {"203.0.113.7, 198.51.100.2"}],
   [NoHeaders EXCEPT !["x-forwarded-for"] = {"198.51.100.2 , 203.0.113.7"}],
   [NoHeaders EXCEPT !["x-forwarded-for"] = {"not-an-ip"}, !["x-real-ip"] = {"203.0.113.7"}],
   [NoHeaders EXCEPT !["cf-connecting-ip"] = {"198.51.100.2"}, !["x-real-ip"] = {"203.0.113.7"}],
   [NoHeaders EXCEPT !["x-forwarded-for"] = {"not-an-ip"}],
   [NoHeaders EXCEPT !["x-forwarded-for"] = {"not-an-ip, 203.0.113.7"}],
   [NoHeaders EXCEPT !["x-forwarded-for"] = {"1.2.3"}],
   [NoHeaders EXCEPT !["x-forwarded-for"] = {""}, !["x-client-ip"] = {"999.999.999.999"}],
   [NoHeaders EXCEPT !["true-client-ip"] = {"2001:db8::1"}]}

NextIdentity ==
  \/ \E request \in GateRequests :
       /\ now = 0 \/ getClientIP(request) = "unknown-client"
       /\ HashedCheck(SubmitProc, getClientIP(request), FALSE)
  \/ HashedRecord(SubmitProc, FALSE)
  \/ \E d \in TickSteps : Quiet /\ Tick(d)

SpecIdentity == Init /\ [][NextIdentity]_vars

\* ------------------------------------------------------------ properties
\* the store the environment selects
Store == IF env.convex THEN notes ELSE notesStore

AcceptedAt(who) == {a.at : a \in {b \in accepted : b.client = who}}

IsPostResponse(r) == r.handler = "POST /api/notes"

C2_RecordAfterStore ==
  [][/\ cookies' # cookies =>
          /\ IsPostResponse(lastResponse') /\ lastResponse'.status = 200
          /\ lastResponse'.fx.stored
          /\ getNote(Store', lastResponse'.noteId) # {}
     /\ (IsPostResponse(lastResponse') /\ lastResponse'.status # 200) =>
          UNCHANGED <<cookies, rateLimits, inMemoryRateLimits, accepted>>]_vars

\* the store write failed after upload and classification, and the client
\* has no rate-limit record
C2_Witness ==
  /\ IsPostResponse(lastResponse) /\ lastResponse.status = 500
  /\ lastResponse.error = "Failed to create note"
  /\ lastResponse.fx.classified
  /\ cookies[lastResponse.client].lastNote = {}

\* C3: a submission that reaches its recording step when its identity already
\* has a rate-limit record (it was checked before the other submission
\* recorded) is still answered 200; both notes are in the store and the
\* identity has two accepted submissions inside one 24-hour window.
C3_BothAccepted ==
  [][\A q \in Procs :
       (POST_Record(q) /\ cookies[req[q].client].lastNote # {}) =>
         /\ lastResponse'.status = 200
         /\ now - Some(cookies[req[q].client].lastNote) < ONE_DAY_MS
         /\ \E a, b \in accepted' :
              /\ a.client = req[q].client /\ b.client = req[q].client
              /\ a.noteId # b.noteId /\ b.noteId = req[q].noteId
              /\ getNote(Store', a.noteId) # {} /\ getNote(Store', b.noteId) # {}]_vars

C3_Witness ==
  \E a, b \in accepted :
    /\ a.client = b.client /\ a.noteId # b.noteId
    /\ a.at - b.at < ONE_DAY_MS /\ b.at - a.at < ONE_DAY_MS
    /\ getNote(Store, a.noteId) # {} /\ getNote(Store, b.noteId) # {}

\* C4: a response of GET /api/notes holds only approved and pending notes:
\* without bounds exactly the approved and pending notes of the store, with
\* bounds those of them inside the padded bounds; a flagged note (three flags
\* on an approved note) is in neither.
C4_PublicQueries ==
  (lastResponse.handler = "GET /api/notes") =>
    LET shown == Range(lastResponse.notes)
        public == {n \in Range(Store) : n.moderationStatus \in {"approved", "pending"}}
    IN /\ \A n \in shown : n.moderationStatus \in {"approved", "pending"}
       /\ lastResponse.bounds = {} => shown = public
       /\ lastResponse.bounds # {} =>
            shown = {n \in public : InBounds(n, Some(lastResponse.bounds))}

\* the store holds a note that three flags turned from approved to flagged,
\* and the full-set response leaves it out
C4_Witness ==
  /\ lastResponse.handler = "GET /api/notes" /\ lastResponse.bounds = {}
  /\ \E n \in Range(Store) :
       /\ n.moderationStatus = "flagged" /\ n.flagCount = FLAG_THRESHOLD
       /\ n \notin Range(lastResponse.notes)

\* a flag operation on note id completes in this step
FlagStep(id) ==
  \/ \E w \in Workers : Flag_Apply(w) /\ work[w].noteId = id /\ getNote(notesStore, id) # {}
  \/ \E w \in Workers : Flag_Begin(w, id) /\ env.convex /\ getNote(notes, id) # {}

\* C5: a flag on an approved note makes it flagged when it raises flagCount
\* to 3 and leaves it approved when it raises flagCount to 1 or 2; a flag on
\* a pending or rejected note raises flagCount by one and leaves the status.
C5_FlagThreshold ==
  [][\A id \in FlagNoteIds :
       FlagStep(id) =>
         LET old == Some(getNote(Store, id))
             new == Some(getNote(Store', id))
         IN /\ new.flagCount = old.flagCount + 1
            /\ (old.moderationStatus = "approved" /\ new.flagCount = 3) =>
                 new.moderationStatus = "flagged"
            /\ (old.moderationStatus = "approved" /\ new.flagCount < 3) =>
                 new.moderationStatus = "approved"
            /\ old.moderationStatus \in {"pending", "rejected"} =>
                 new.moderationStatus = old.moderationStatus]_vars

\* the third flag has just turned the note to flagged
C5_Witness ==
  /\ lastResponse.handler = "POST /api/notes/flag" /\ lastResponse.status = 200
  /\ lastResponse.flagCount = {3}
  /\ \E n \in getNote(Store, lastResponse.noteId) :
       n.moderationStatus = "flagged" /\ n.flagCount = 3

\* C6: the flagCount of every stored note equals the number of flag
\* operations completed on it since its creation, whatever the interleaving
\* of the requests, and a flag on an approved note that brings the count to 3
\* or more leaves the note flagged.
C6_FlagAtomic ==
  [][/\ \A n \in Range(Store') : n.flagCount = flagsDone'[n.id]
     /\ \A id \in FlagNoteIds :
          (FlagStep(id) /\ Some(getNote(Store, id)).moderationStatus = "approved"
                        /\ Some(getNote(Store', id)).flagCount >= 3) =>
            Some(getNote(Store', id)).moderationStatus = "flagged"]_vars

\* one flag request has completed while another, which had looked the note
\* up before, is still to apply its flag
C6_Witness ==
  /\ lastResponse.handler = "POST /api/notes/flag" /\ lastResponse.status = 200
  /\ \E w \in Workers :
       /\ work[w].pc = "flag" /\ work[w].noteId = lastResponse.noteId
       /\ \E n \in getNote(Store, lastResponse.noteId) :
            n.flagCount = 2 /\ flagsDone[n.id] = 2

\* C7: the status a submission is stored with follows from the adapter's
\* result alone: approved for an approving verdict with confidence >= 0.8,
\* rejected for a rejecting verdict with confidence >= 0.8, pending for a
\* confidence below 0.8 or missing and when the classifier call fails; the
\* 200 response reports the status the stored note has.
C7_InitialStatus ==
  [][/\ \A out \in ClassifierOutputs, pos \in RandomPositions, rot \in Rotations :
          POST_Moderate(SubmitProc, out, pos, rot) =>
            LET result == moderateImage(out)
                sure == result.confidence # {} /\ Some(result.confidence) >= 80
                status == req'[SubmitProc].moderationStatus
            IN /\ (result.approved /\ sure) => status = "approved"
               /\ (~result.approved /\ sure) => status = "rejected"
               /\ (~sure \/ out.throws) => status = "pending"
               /\ ~env.convex =>
                    Some(getNote(notesStore', req[SubmitProc].noteId)).moderationStatus = status
     /\ POST_Record(SubmitProc) =>
          /\ lastResponse'.status = 200
          /\ lastResponse'.moderationStatus = req[SubmitProc].moderationStatus
          /\ Some(getNote(Store', lastResponse'.noteId)).moderationStatus =
               lastResponse'.moderationStatus]_vars

\* a note answered and stored as rejected, and another as approved
C7_Witness ==
  /\ IsPostResponse(lastResponse) /\ lastResponse.status = 200
  /\ lastResponse.moderationStatus = "rejected"
  /\ \E n \in Range(Store) : n.id # lastResponse.noteId /\ n.moderationStatus = "approved"

\* C8: when the classifier call throws, the adapter returns approved = false
\* with confidence 0; when the text holds no parsable object it returns the
\* keyword guess with confidence 0.5; in both cases the submission goes on
\* and its note is pending; a note is approved on submission only for a
\* parsed approving verdict with confidence >= 0.8.
C8_FailClosed ==
  [][\A out \in ClassifierOutputs, pos \in RandomPositions, rot \in Rotations :
       POST_Moderate(SubmitProc, out, pos, rot) =>
         LET result == moderateImage(out)
             after == req'[SubmitProc]
         IN /\ out.throws => (~result.approved /\ result.confidence = {0})
            /\ (~out.throws /\ out.json = {}) =>
                 (result.confidence = {50} /\ result.approved = out.approvedWord)
            /\ (out.throws \/ out.json = {}) =>
                 /\ after.moderationStatus = "pending"
                 /\ after.pc \in {"create", "record"}
                 /\ ~env.convex => getNote(notesStore', after.noteId) # {}
            /\ after.moderationStatus = "approved" =>
                 /\ ~out.throws /\ out.json # {}
                 /\ Some(out.json).decision = "APPROVED"
                 /\ Some(out.json).confidence # {}
                 /\ Some(Some(out.json).confidence) >= 80]_vars

\* the classifier was unavailable and the note is stored as pending
C8_Witness ==
  /\ req[SubmitProc].pc = "record"
  /\ req[SubmitProc].moderation.reason = "AI moderation unavailable - requires manual review"
  /\ req[SubmitProc].moderation.confidence = {0}
  /\ \E n \in getNote(Store, req[SubmitProc].noteId) : n.moderationStatus = "pending"

\* C9: a submission with explicit coordinates is recorded and answered 200
\* only if, at those coordinates, the largest overlap with the other notes of
\* the store is at most 25% (otherwise it is refused and no note is created).
C9_OverlapRejected ==
  [][(POST_Record(SubmitProc) /\ req[SubmitProc].body.pos # {}) =>
       isPlacementValid(req[SubmitProc].x, req[SubmitProc].y,
                        {n \in Range(Store) : n.id # req[SubmitProc].noteId})]_vars

C11_RejectedBeforeEffects ==
  [][req[SubmitProc].pc = "idle" =>
       LET Limited(c) == cookies[c].lastNote # {} /\ now - Some(cookies[c].lastNote) < ONE_DAY_MS
           after == req'[SubmitProc]
       IN /\ after.pc = "upload" =>
               /\ ~Limited(after.client)
               /\ after.body.imageData.present /\ after.body.imageData.dataImage
               /\ after.body.imageData.length * 3 <= 500000 * 4
               /\ lastResponse' = NoResponse
          /\ (IsPostResponse(lastResponse') /\ Limited(lastResponse'.client)) =>
               /\ lastResponse'.status = 429
               /\ lastResponse'.timeUntilNextPost # {}
               /\ Some(lastResponse'.timeUntilNextPost) > 0
          /\ (IsPostResponse(lastResponse') /\ lastResponse'.status \in {429, 400}) =>
               /\ lastResponse'.fx = NoEffects
               /\ after.pc = "idle"
               /\ UNCHANGED <<nextUuid, notesStore, notes, blobs, cookies, rateLimits,
                              inMemoryRateLimits, accepted>>
          /\ after.pc \in {"idle", "upload"}
          /\ after.pc = "idle" => (IsPostResponse(lastResponse')
                                   /\ lastResponse'.status \in {429, 400, 500})]_vars

\* an oversized image has just been refused while the store holds a note
C11_Witness ==
  /\ IsPostResponse(lastResponse) /\ lastResponse.status = 400
  /\ lastResponse.error = "Image too large. Please keep it under 500KB."
  /\ Len(Store) = 1 /\ nextUuid = 2

\* C12: every stored note has one of the eight palette colors (a submission
\* with another color is refused and stores nothing).
C12_PaletteColor ==
  \A n \in Range(Store) : n.color \in NoteColors

\* the ids of a list of notes
Ids(list) == {n.id : n \in Range(list)}

\* id is in no answer of the store: point lookup, moderation lists, full-set
\* and region queries; the stats count the notes that are left
Absent(store, id) ==
  /\ getNote(store, id) = {}
  /\ \A status \in {{}} \cup {{st} : st \in ModerationStatuses} :
       id \notin Ids(getNotesForModeration(store, status))
  /\ id \notin Ids(getPublicNotes(store))
  /\ \A b \in Viewports \ {{}} : id \notin Ids(getNotesInViewport(store, Some(b)))
  /\ getStats(store).total = Cardinality(Ids(store))

\* a delete of the existing note id completes in this step
DeleteStep(id) ==
  \/ /\ work[AdminWorker].pc = "moderate" /\ work[AdminWorker].noteId = id
     /\ work[AdminWorker].action = "delete" /\ getNote(notesStore, id) # {}
     /\ work'[AdminWorker].pc = "idle"
     /\ Admin_Apply(AdminWorker)
  \/ /\ work[AdminWorker].pc = "deleting" /\ work[AdminWorker].noteId = id
     /\ getNote(notesStore, id) # {}
     /\ \E delOk \in BOOLEAN : Admin_Delete(AdminWorker, delOk)
  \/ /\ env.convex /\ getNote(notes, id) # {}
     /\ Convex_deleteNote(id)

C14_NotFoundReported ==
  [][/\ (lastResponse'.handler = "POST /api/notes/flag" /\ lastResponse'.status = 200) =>
          /\ getNote(Store, lastResponse'.noteId) # {}
          /\ lastResponse'.flagCount # {}
     /\ (lastResponse'.handler = "POST /api/admin/moderate" /\ lastResponse'.status = 200) =>
          getNote(notesStore, lastResponse'.noteId) # {}
     /\ (lastResponse'.handler = "PUT /api/admin/moderate" /\ lastResponse'.status = 200
           /\ lastResponse'.action # "delete") =>
          \A r \in Range(lastResponse'.results) :
            r.success => getNote(notesStore, r.noteId) # {}]_vars

\* C15: in every reachable state a flagged note has flagCount >= 3 (only a
\* flag on an approved note assigns flagged).
C15_FlaggedOnlyByFlags ==
  \A n \in Range(Store) : n.moderationStatus = "flagged" => n.flagCount >= 3

StatusOf(store, id) == {n.moderationStatus : n \in getNote(store, id)}

C17_UniqueVisibleId ==
  \A i, j \in DOMAIN Store : Store[i].id = Store[j].id => i = j

\* the fields of a note that are set at creation
CreationFields(n) == [n EXCEPT !.moderationStatus = "", !.flagCount = 0]

\* the notes other than id are the same in both stores, and id has the same
\* creation fields
OnlyChanges(store, store2, id) ==
  /\ Len(store2) = Len(store)
  /\ \A i \in DOMAIN store :
       /\ store2[i].id = store[i].id
       /\ store[i].id # id => store2[i] = store[i]

\* C18: a step never changes the creation fields (id, position, rotation,
\* color, image reference, creation time, owner) of a stored note; a manual
\* status change touches only the moderationStatus of the note it names; a
\* flag touches only that note's flagCount and, on reaching the threshold
\* while approved, its moderationStatus; a status change of a missing id
\* changes nothing.
C18_FieldsFrozen ==
  [][/\ Store' # Store =>
          \A n \in Range(Store) : \A m \in getNote(Store', n.id) :
            CreationFields(m) = CreationFields(n)
     /\ (lastResponse' # lastResponse /\ lastResponse'.handler = "convex moderateNote") =>
          /\ OnlyChanges(notes, notes', lastResponse'.noteId)
          /\ \A n \in getNote(notes, lastResponse'.noteId) :
               FlagCountOf(notes', n.id) = {n.flagCount}
          /\ ~lastResponse'.found => notes' = notes
     /\ (/\ lastResponse' # lastResponse
         /\ lastResponse'.handler = "POST /api/admin/moderate"
         /\ lastResponse'.status = 200 /\ lastResponse'.action \in {"approve", "reject"}) =>
          /\ OnlyChanges(notesStore, notesStore', lastResponse'.noteId)
          /\ \A n \in getNote(notesStore, lastResponse'.noteId) :
               FlagCountOf(notesStore', n.id) = {n.flagCount}
          /\ getNote(notesStore, lastResponse'.noteId) = {} => notesStore' = notesStore
     /\ (/\ lastResponse' # lastResponse
         /\ lastResponse'.handler = "POST /api/notes/flag" /\ lastResponse'.status = 200) =>
          /\ OnlyChanges(Store, Store', lastResponse'.noteId)
          /\ \A n \in getNote(Store, lastResponse'.noteId) :
               /\ FlagCountOf(Store', n.id) = {n.flagCount + 1}
               /\ StatusOf(Store', n.id) =
                    {IF n.moderationStatus = "approved" /\ n.flagCount + 1 >= FLAG_THRESHOLD
                       THEN "flagged" ELSE n.moderationStatus}]_vars

\* the admin handler has rejected a note that keeps its flags
C18_Witness ==
  /\ lastResponse.handler = "POST /api/admin/moderate" /\ lastResponse.status = 200
  /\ lastResponse.action = "reject"
  /\ \E n \in getNote(notesStore, lastResponse.noteId) :
       n.moderationStatus = "rejected" /\ n.flagCount >= 1

\* C19: the hashed gate never reports that an identity may post while a
\* submission of that identity was recorded (in the durable store or in the
\* in-process Map) less than 24 hours ago, durable-store failures included.
C19_FallbackStillLimits ==
  (lastResponse.handler = "canClientPostNote" /\ lastResponse.canPost) =>
    \A a \in accepted :
      a.client = lastResponse.client => now - a.at >= ONE_DAY_MS

\* C20: for a submission recorded at any time, the cookie check, the
\* in-process check and the durable-store check give the same answer at the
\* current time (canPost false with the same strictly positive remaining
\* time inside the window, canPost true otherwise), exactly 24 hours later
\* included.
C20_ChecksAgree ==
  \A a \in accepted :
    LET identifier == hashIdentifier(a.client)
        cookie == canUserPostNote({a.at}, now)
        inMemory == checkInMemoryRateLimit(identifier :> {a.at}, identifier, now)
        durable == canPost(recordSubmission({}, identifier, a.noteId, a.at), identifier, now)
    IN /\ inMemory = cookie
       /\ durable = cookie
       /\ ~cookie.canPost => Some(cookie.timeUntilNextPost) > 0

\* C21: a cleanup of rate-limit records removes only records made more than
\* twice 24 hours ago, and for every identity the durable check and the
\* in-process check answer after the cleanup what they answered before it.
C21_CleanupUnobservable ==
  [][(lastResponse'.handler \in {"cleanupOldRecords", "cleanupInMemoryRateLimits"}) =>
       /\ rateLimits' \subseteq rateLimits
       /\ \A r \in rateLimits \ rateLimits' : now - r.createdAt > 2 * ONE_DAY_MS
       /\ \A i \in DOMAIN inMemoryRateLimits :
            /\ inMemoryRateLimits'[i] \subseteq inMemoryRateLimits[i]
            /\ \A ts \in inMemoryRateLimits[i] \ inMemoryRateLimits'[i] :
                 now - ts > 2 * ONE_DAY_MS
       /\ \A ip \in IPs :
            /\ canPost(rateLimits', hashIdentifier(ip), now) =
                 canPost(rateLimits, hashIdentifier(ip), now)
            /\ checkInMemoryRateLimit(inMemoryRateLimits', hashIdentifier(ip), now) =
                 checkInMemoryRateLimit(inMemoryRateLimits, hashIdentifier(ip), now)]_vars

\* a cleanup of the durable store has removed a record and kept another
C21_Witness ==
  /\ lastResponse.handler = "cleanupOldRecords" /\ lastResponse.deleted >= 1
  /\ rateLimits # {}

\* the header is "Bearer <the admin key>", possibly followed by more pieces
CarriesAdminKey(authHeader) ==
  \E parts \in authHeader :
    Len(parts) >= 2 /\ parts[1] = "Bearer" /\ parts[2] \in ADMIN_API_KEY

\* C22: in production the admin list, the single moderation and the batch
\* moderation answer 401 Unauthorized, and leave the stores and the requests
\* in flight as they were, exactly when the authorization header does not
\* carry the admin key; outside production no request is refused as
\* unauthorized.
C22_AdminNeedsKey ==
  [][\A authHeader \in AuthHeaders :
       LET refused == env.production /\ ~CarriesAdminKey(authHeader)
       IN /\ \A filter \in ListFilters :
               Admin_List(authHeader, filter) =>
                 /\ refused <=> lastResponse'.status = 401
                 /\ refused => lastResponse' = AdminListResponse(401, "Unauthorized", <<>>, {})
          /\ \A id \in FlagNoteIds, action \in ModerationActions :
               Admin_Begin(AdminWorker, authHeader, id, action) =>
                 /\ refused <=> lastResponse' = AdminResponse(id, action, 401, "Unauthorized")
                 /\ refused => UNCHANGED <<storeVars, notes, work>>
          /\ \A noteIds \in BatchNoteIds, action \in ModerationActions :
               Batch_Begin(BatchWorker, authHeader, noteIds, action) =>
                 /\ refused <=> lastResponse' = BatchResponse(action, 401, "Unauthorized", <<>>)
                 /\ refused => UNCHANGED <<storeVars, notes, work>>]_vars

\* in production a batch moderation of a stored note has been refused
C22_Witness ==
  /\ env.production /\ notesStore # <<>>
  /\ lastResponse.handler = "PUT /api/admin/moderate" /\ lastResponse.status = 401

\* C23: when the image service fails during a delete (single or batch), the
\* note is removed from the store all the same, the blob stays, and the
\* delete is answered as a success.
C23_DeleteSurvivesImageFailure ==
  [][/\ (/\ work[AdminWorker].pc = "deleting" /\ env.blobToken
         /\ getNote(notesStore, work[AdminWorker].noteId) # {}
         /\ Admin_Delete(AdminWorker, FALSE)) =>
          /\ getNote(notesStore', work[AdminWorker].noteId) = {}
          /\ Len(notesStore') = Len(notesStore) - 1
          /\ lastResponse' = AdminResponse(work[AdminWorker].noteId, "delete", 200, "")
     /\ \A id \in FlagNoteIds :
          (/\ work[BatchWorker].pc = "batchDeleting" /\ env.blobToken
           /\ getNote(notesStore, id) # {}
           /\ Batch_Delete(BatchWorker, id, FALSE)) =>
            /\ getNote(notesStore', id) = {}
            /\ work[BatchWorker].pending = {id} =>
                 (/\ lastResponse'.status = 200
                  /\ \A r \in Range(lastResponse'.results) : r.success)]_vars

\* a single delete was answered as a success, the note is gone and its blob
\* is still stored
C23_Witness ==
  /\ lastResponse.handler = "POST /api/admin/moderate" /\ lastResponse.status = 200
  /\ lastResponse.action = "delete"
  /\ getNote(notesStore, lastResponse.noteId) = {}
  /\ [scheme |-> "https", id |-> lastResponse.noteId] \in blobs

\* C24: the answer to a region query holds exactly the stored notes that are
\* approved or pending and have minX-200 <= x <= maxX+200 and
\* minY-200 <= y <= maxY+200, each once.
C24_RegionQuery ==
  (lastResponse.handler = "GET /api/notes" /\ lastResponse.bounds # {}) =>
    LET b == Some(lastResponse.bounds)
        answer == lastResponse.notes
    IN /\ \A n \in Range(Store) :
            n \in Range(answer) <=>
              /\ n.moderationStatus \in {"approved", "pending"}
              /\ b.minX - 200 <= n.x /\ n.x <= b.maxX + 200
              /\ b.minY - 200 <= n.y /\ n.y <= b.maxY + 200
       /\ Range(answer) \subseteq Range(Store)
       /\ \A i, j \in DOMAIN answer : answer[i].id = answer[j].id => i = j

\* the answer holds a note on the corner of the padded region, outside the
\* requested bounds
C24_Witness ==
  /\ lastResponse.handler = "GET /api/notes" /\ lastResponse.bounds # {}
  /\ \E n \in Range(lastResponse.notes) :
       n.x = Some(lastResponse.bounds).minX - 200 /\ n.y = Some(lastResponse.bounds).maxY + 200

Abs(i) == IF i < 0 THEN 0 - i ELSE i

\* C25: for the ghost and every note the wall shows, the overlap is the whole
\* note area when the two are at the same place, zero when they are 150 or
\* more apart in x or in y (touching edges included), between zero and the
\* note area, and the same with the two positions exchanged.
C25_OverlapFraction ==
  lastResponse.handler = "Wall ghost" =>
    \A n \in lastResponse.notes :
      LET overlap == calculateOverlapPercentage(lastResponse.x, lastResponse.y, n.x, n.y)
          exchanged == calculateOverlapPercentage(n.x, n.y, lastResponse.x, lastResponse.y)
      IN /\ (lastResponse.x = n.x /\ lastResponse.y = n.y) => overlap[1] = overlap[2]
         /\ (Abs(lastResponse.x - n.x) >= 150 \/ Abs(lastResponse.y - n.y) >= 150) =>
              overlap[1] = 0
         /\ 0 <= overlap[1] /\ overlap[1] <= overlap[2]
         /\ overlap[2] = 150 * 150
         /\ exchanged = overlap

\* the ghost touches one shown note along an edge and lies apart from the
\* other
C25_Witness ==
  /\ lastResponse.handler = "Wall ghost"
  /\ lastResponse.x = 376 /\ lastResponse.y = 0
  /\ lastResponse.notes = {[x |-> 0, y |-> 0], [x |-> 226, y |-> 0]}

\* C26: the ghost's placement is valid iff its overlap with each shown note,
\* taken alone, is at most a quarter of the note area; with no notes shown
\* every placement is valid.
C26_PairwiseAcceptance ==
  lastResponse.handler = "Wall ghost" =>
    /\ lastResponse.isPlacementValid <=>
         \A n \in lastResponse.notes :
           4 * calculateOverlapPercentage(lastResponse.x, lastResponse.y, n.x, n.y)[1] <= 150 * 150
    /\ lastResponse.notes = {} => lastResponse.isPlacementValid

\* a valid placement between two notes that cover 37 of its 150 columns each
C26_Witness ==
  /\ lastResponse.handler = "Wall ghost" /\ lastResponse.isPlacementValid
  /\ lastResponse.x = 113 /\ lastResponse.y = 0
  /\ lastResponse.notes = {[x |-> 0, y |-> 0], [x |-> 226, y |-> 0]}

\* the characters are a decimal numeral without a leading zero
IsNumeral(chars) ==
  /\ chars # <<>>
  /\ \A i \in DOMAIN chars : \E d \in 0..9 : chars[i] = DigitChar(d)
  /\ Len(chars) > 1 => chars[1] # "0"

RECURSIVE NumberOf(_)
NumberOf(chars) ==
  IF chars = <<>> THEN 0
  ELSE 10 * NumberOf(SubSeq(chars, 1, Len(chars) - 1))
         + (CHOOSE d \in 0..9 : chars[Len(chars)] = DigitChar(d))

\* C27: the text formatTimeRemaining returns for ms >= 0 ends with the
\* numeral of (ms mod 3,600,000) div 60,000 and "m"; it starts with the
\* numeral of ms div 3,600,000, "h" and a space when that is above 0 and has
\* nothing before the minutes when it is 0; 9,000,000 gives "2h 30m",
\* 10,800,000 "3h 0m", 2,700,000 "45m", 30,000 "0m", 86,400,000 "24h 0m".
C27_FormatTimeRemaining ==
  lastResponse.handler = "formatTimeRemaining" =>
    LET ms == lastResponse.ms
        text == lastResponse.text
        hours == ms \div 3600000
        minutes == (ms % 3600000) \div 60000
        minutesAt(i) == /\ text[Len(text)] = "m"
                        /\ IsNumeral(SubSeq(text, i, Len(text) - 1))
                        /\ NumberOf(SubSeq(text, i, Len(text) - 1)) = minutes
    IN /\ hours > 0 =>
            \E i \in DOMAIN text :
              /\ text[i] = "h" /\ i + 2 < Len(text) /\ text[i + 1] = " "
              /\ IsNumeral(SubSeq(text, 1, i - 1))
              /\ NumberOf(SubSeq(text, 1, i - 1)) = hours
              /\ minutesAt(i + 2)
       /\ hours = 0 => minutesAt(1)
       /\ ms = 9000000 => text = <<"2", "h", " ", "3", "0", "m">>
       /\ ms = 10800000 => text = <<"3", "h", " ", "0", "m">>
       /\ ms = 2700000 => text = <<"4", "5", "m">>
       /\ ms = 30000 => text = <<"0", "m">>
       /\ ms = 86400000 => text = <<"2", "4", "h", " ", "0", "m">>

\* the wait of a refused submission, one millisecond into the window, was
\* formatted as "23h 59m"
C27_Witness ==
  /\ lastResponse.handler = "formatTimeRemaining" /\ lastResponse.ms = ONE_DAY_MS - 1
  /\ lastResponse.text = <<"2", "3", "h", " ", "5", "9", "m">>

\* C28: no step lowers the flagCount of a stored note, and a flag applied to
\* a note that is approved and already has three or more flags (re-approved
\* after being flagged, or approved after collecting its flags while
\* pending) sets it to flagged in that step.
C28_ReflaggedAtOnce ==
  [][/\ Store' # Store =>
          \A n \in Range(Store) : \A c \in FlagCountOf(Store', n.id) : c >= n.flagCount
     /\ (/\ lastResponse' # lastResponse
         /\ lastResponse'.handler = "POST /api/notes/flag" /\ lastResponse'.status = 200) =>
          \A n \in getNote(Store, lastResponse'.noteId) :
            (n.moderationStatus = "approved" /\ n.flagCount >= 3) =>
              /\ StatusOf(Store', n.id) = {"flagged"}
              /\ FlagCountOf(Store', n.id) = {n.flagCount + 1}]_vars

\* the fourth flag has been counted and the note is flagged
C28_Witness ==
  /\ lastResponse.handler = "POST /api/notes/flag" /\ lastResponse.status = 200
  /\ lastResponse.flagCount = {4}
  /\ StatusOf(Store, lastResponse.noteId) = {"flagged"}

\* C29: a submission answered 200 with moderationStatus rejected has its
\* note in the store as rejected and its client's last-note cookie set to the
\* time of the answer; while less than 24 hours have passed since, no
\* submission of that client gets past the gate (it is answered 429); and no
\* answer of GET /api/notes holds a rejected note.
C29_RejectedStillCounts ==
  [][/\ (/\ lastResponse' # lastResponse /\ IsPostResponse(lastResponse')
         /\ lastResponse'.status = 200 /\ lastResponse'.moderationStatus = "rejected") =>
          /\ StatusOf(Store', lastResponse'.noteId) = {"rejected"}
          /\ lastResponse'.fx.stored /\ lastResponse'.fx.recorded
          /\ cookies'[lastResponse'.client].lastNote = {now}
     /\ (/\ req[SubmitProc].pc = "idle"
         /\ \E a \in accepted :
              /\ a.client = GateClient /\ now - a.at < ONE_DAY_MS
              /\ StatusOf(Store, a.noteId) = {"rejected"}) =>
          /\ req'[SubmitProc].pc = "idle"
          /\ IsPostResponse(lastResponse') =>
               (lastResponse'.status = 429 /\ UNCHANGED <<notes, notesStore, cookies>>)
     /\ lastResponse'.handler = "GET /api/notes" =>
          \A n \in Range(lastResponse'.notes) : n.moderationStatus # "rejected"]_vars

\* a second submission of the client is refused one millisecond before the
\* 24 hours are over, its first note being stored as rejected
C29_Witness ==
  /\ IsPostResponse(lastResponse) /\ lastResponse.status = 429
  /\ lastResponse.timeUntilNextPost = {1}
  /\ \E a \in accepted : a.client = GateClient /\ StatusOf(Store, a.noteId) = {"rejected"}

\* the texts that have the form of an address
AddressTexts ==
  {"203.0.113.7", "198.51.100.2", "999.999.999.999", "2001:db8::1", "::1", "localhost"}

\* the first entries of the proxy headers of a request that have the form of
\* an address, in the order of preference of the headers
AddressesOf(request) ==
  LET first(i) == IF request[ProxyHeaders[i]] = {} THEN ""
                  ELSE FirstEntry(Some(request[ProxyHeaders[i]]))
  IN SelectSeq([i \in DOMAIN ProxyHeaders |-> first(i)], LAMBDA text : text \in AddressTexts)

\* getClientIP of each request
ClientIPOf == [request \in GateRequests |-> getClientIP(request)]

\* the first address among the first entries of each request
FirstAddressOf ==
  [request \in GateRequests |->
     IF AddressesOf(request) = <<>> THEN "unknown-client" ELSE Head(AddressesOf(request))]

\* C30: the identity the hashed gate uses for a request is the first entry,
\* in the order of preference of the proxy headers, that has the form of an
\* address, and "unknown-client" when no header's first entry has; requests
\* that agree on it have the same hashed identity; and while a submission
\* recorded for "unknown-client" is less than 24 hours old, every request
\* without such an entry is refused.
C30_IdentityFromHeaders ==
  [][(gate[SubmitProc].pc = "idle" /\ lastResponse'.handler = "canClientPostNote") =>
       \A request \in GateRequests :
         ClientIPOf[request] = lastResponse'.client =>
           /\ FirstAddressOf[request] = lastResponse'.client
           /\ \A other \in GateRequests :
                FirstAddressOf[other] = FirstAddressOf[request] =>
                  hashIdentifier(ClientIPOf[other]) = hashIdentifier(lastResponse'.client)
           /\ (/\ AddressesOf(request) = <<>>
               /\ \E a \in accepted : a.client = "unknown-client" /\ now - a.at < ONE_DAY_MS) =>
                ~lastResponse'.canPost]_vars

\* a request without an address is refused one millisecond before the 24
\* hours of another's submission are over
C30_Witness ==
  /\ lastResponse.handler = "canClientPostNote" /\ lastResponse.client = "unknown-client"
  /\ ~lastResponse.canPost /\ lastResponse.timeUntilNextPost = {1}

====
